---- MODULE Spec2Model ----
(***************************************************************************)
(* Ledger and trading engine of the Discord Stock Exchange bot.            *)
(*                                                                         *)
(* One aiosqlite connection is shared by every coroutine.  A statement     *)
(* issued on it is visible to every later statement of any coroutine at    *)
(* once (db); it is persisted by the next commit() of any coroutine        *)
(* (disk).  asyncio.Lock (Database._lock) serialises the sections written  *)
(* `async with db._lock`; every await outside such a section is a point    *)
(* where another coroutine may run.                                        *)
(*                                                                         *)
(* Amounts of money are integers, in units of 1/10000 dollar.              *)
(* Time is counted in hours.                                               *)
(***************************************************************************)
EXTENDS Integers, Sequences, FiniteSets, TLC

(* ------------------------------ bounds -------------------------------- *)
NumUsers == 2
NumTasks == 2
MaxOps == 3
MaxTime == 1
MaxEvents == 2

Users == 1..NumUsers
Tasks == 1..NumTasks

(* --------------------------- program constants ------------------------ *)
TOTAL_SHARES == 1000
BASE_PRICE == 100
STARTING_BALANCE == 10000
OWNERSHIP_LIMIT_PCT == 10
LOCKUP_HOURS == 1
MARGIN_REQUIREMENT == 150
MARGIN_CALL_THRESHOLD == 130
LIQUIDATION_THRESHOLD == 110
OPT_OUT_DECAY_PERMILLE == 999
REMOVAL_FLOOR_CENTS == 1
SPLIT_THRESHOLD == 10000
FUND_CREATION_COST == 1000
DIVIDEND_PCT_PER_DAY == 2
HOURS_PER_DAY == 24

Money(dollars) == dollars * 10000
CentsToMoney(cents) == cents * 100

(* inputs of the commands *)
BuyAmounts == {50, 100, 150}
SellAmounts == {50, 100}
ShortAmounts == {10}
CoverAmounts == {4, 10}
SplitRatios == {2}
OrderAmounts == {100}
FundNames == {"alpha", "beta"}
DepositAmounts == {9000}
CrashMagnitudes == {70, 90}
BoomMagnitudes == {110, 130}

VARIABLES db, disk, lock, task, now, nops, probe, utc_offset, loops, mem

vars == <<db, disk, lock, task, now, nops, probe, utc_offset, loops, mem>>

(* ------------------------------ tables -------------------------------- *)
NoRows == [k \in {} |-> 0]

(* the dictionaries the cogs keep in memory: Economy._last_news_trigger   *)
(* and ActivityTracker._daily_reactors                                    *)
NoMemory == [last_news_trigger |-> NoRows, daily_reactors |-> NoRows]

(* wallets.last_active while no activity has been recorded: price_update  *)
(* takes it for `no date` (`if user['last_active']`)                      *)
NoDate == -1

Put(tbl, key, row) ==
  [x \in DOMAIN tbl \cup {key} |-> IF x = key THEN row ELSE tbl[x]]

Del(tbl, keys) == [x \in DOMAIN tbl \ keys |-> tbl[x]]

EmptyLedger ==
  [users |-> NoRows, stocks |-> NoRows, wallets |-> NoRows,
   portfolios |-> NoRows, short_positions |-> NoRows,
   limit_orders |-> NoRows, hedge_funds |-> NoRows,
   hedge_fund_members |-> NoRows, transactions |-> 0, stock_splits |-> 0,
   activity_metrics |-> NoRows, market_events |-> 0, market_news |-> 0,
   next_id |-> 1]

(* A ledger persisted by an earlier run of the bot: user NumUsers          *)
(* registered, opted out, and decayed by price_update down to the removal  *)
(* floor.                                                                  *)
DecayedLedger ==
  [EmptyLedger EXCEPT
     !.users = Put(NoRows, NumUsers,
                   [opted_out |-> TRUE, total_shares |-> TOTAL_SHARES,
                    shares_available |-> TOTAL_SHARES]),
     !.stocks = Put(NoRows, NumUsers,
                    [current_price |-> CentsToMoney(REMOVAL_FLOOR_CENTS),
                     base_price |-> Money(BASE_PRICE), volume_today |-> 0,
                     previous_close |-> CentsToMoney(REMOVAL_FLOOR_CENTS),
                     daily_high |-> CentsToMoney(REMOVAL_FLOOR_CENTS),
                     daily_low |-> CentsToMoney(REMOVAL_FLOOR_CENTS),
                     all_time_high |-> Money(BASE_PRICE),
                     all_time_low |-> CentsToMoney(REMOVAL_FLOOR_CENTS)]),
     !.wallets = Put(NoRows, NumUsers,
                     [balance |-> Money(STARTING_BALANCE),
                      lifetime_dividends |-> 0, last_active |-> NoDate])]

PriorLedgers == {EmptyLedger, DecayedLedger}

(* ------------------------------ numbers ------------------------------- *)
Max(a, b) == IF a >= b THEN a ELSE b
Min(a, b) == IF a <= b THEN a ELSE b

(* floor(a * b / c) for a, b >= 0 and c > 0, without forming a * b *)
MulDiv(a, b, c) == (a \div c) * b + ((a % c) * b) \div c

(* ---------------------------- statements ------------------------------ *)
(* One record per SQL statement; Apply is its effect on the connection.   *)
(* An UPDATE or DELETE whose WHERE matches no row changes nothing.        *)

InsertUser(u) == [k |-> "ins_user", u |-> u]
InsertStock(u) == [k |-> "ins_stock", u |-> u]
InsertWallet(u) == [k |-> "ins_wallet", u |-> u]
UpdateBalance(u, delta) == [k |-> "bal", u |-> u, delta |-> delta]
UpdateAvailable(s, delta) == [k |-> "avail", u |-> s, delta |-> delta]
UpdateHolding(h, s, shares, avg, until) ==
  [k |-> "hold_upd", h |-> h, s |-> s, shares |-> shares, avg |-> avg,
   until |-> until]
InsertHolding(h, s, shares, avg, until) ==
  [k |-> "hold_ins", h |-> h, s |-> s, shares |-> shares, avg |-> avg,
   until |-> until]
UpdateHoldingShares(h, s, shares) ==
  [k |-> "hold_shares", h |-> h, s |-> s, shares |-> shares]
DeleteHolding(h, s) == [k |-> "hold_del", h |-> h, s |-> s]
InsertTransaction == [k |-> "tx"]
UpdateVolume(s, n) == [k |-> "vol", u |-> s, n |-> n]
InsertShort(row) == [k |-> "short_ins", row |-> row]
DeleteShort(id) == [k |-> "short_del", id |-> id]
UpdateShort(id, shares, collateral) ==
  [k |-> "short_upd", id |-> id, shares |-> shares,
   collateral |-> collateral]
SplitStock(s, new_price, ratio) ==
  [k |-> "split_stock", u |-> s, price |-> new_price, ratio |-> ratio]
SplitUser(s, new_shares, ratio) ==
  [k |-> "split_user", u |-> s, total |-> new_shares, ratio |-> ratio]
SplitPortfolios(s, ratio) == [k |-> "split_port", u |-> s, ratio |-> ratio]
InsertSplit == [k |-> "split_rec"]
DeleteStock(u) == [k |-> "del_stock", u |-> u]
DeletePortfolioOf(u) == [k |-> "del_port_holder", u |-> u]
DeletePortfolioIn(u) == [k |-> "del_port_stock", u |-> u]
DeleteWallet(u) == [k |-> "del_wallet", u |-> u]
DeleteUser(u) == [k |-> "del_user", u |-> u]
UpdatePrice(u, price, range) == [k |-> "price", u |-> u, price |-> price, range |-> range]
SetOptedOut(u) == [k |-> "optout", u |-> u]
InsertOrder(row) == [k |-> "order_ins", row |-> row]
DeleteOrder(id) == [k |-> "order_del", id |-> id]
InsertFund(name, founder) == [k |-> "fund_ins", name |-> name, u |-> founder]
InsertFounder(founder) == [k |-> "member_ins", u |-> founder]
UpdateTreasury(fund, amount) == [k |-> "treasury", id |-> fund, amount |-> amount]
UpdateContribution(fund, u, amount) == [k |-> "contrib", id |-> fund, u |-> u, amount |-> amount]
UpdateSharePct(fund, total) == [k |-> "share_pct", id |-> fund, total |-> total]
ResetDaily == [k |-> "daily_reset"]
PayDividend(u, dividend) == [k |-> "dividend", u |-> u, dividend |-> dividend]
InsertNews == [k |-> "news_rec"]
ImpactPrice(u, impact) == [k |-> "impact", u |-> u, impact |-> impact]
InsertActivity(u, date) == [k |-> "act_ins", u |-> u, date |-> date]
UpdateActivity(u, date, column, count) == [k |-> "act_upd", u |-> u, date |-> date, column |-> column, count |-> count]
UpdateLastActive(u, date) == [k |-> "last_active", u |-> u, date |-> date]
DeleteActivity(u) == [k |-> "act_del", u |-> u]
UpdateAllPrices(magnitude) == [k |-> "market", magnitude |-> magnitude]
InsertMarketEvent == [k |-> "event_rec"]
CommitStmt == [k |-> "commit"]

(* UPDATE portfolios ... WHERE stock_id = ? of _execute_split; the        *)
(* variant has no WHERE clause                                            *)
HoldsStockBad(key, stock_id) == TRUE

HoldsStock(key, stock_id) == key[2] = stock_id

Apply(d, s) ==
  CASE s.k = "ins_user" ->
         [d EXCEPT !.users = Put(@, s.u,
            [opted_out |-> FALSE, total_shares |-> TOTAL_SHARES,
             shares_available |-> TOTAL_SHARES])]
    [] s.k = "ins_stock" ->
         [d EXCEPT !.stocks = Put(@, s.u,
            [current_price |-> Money(BASE_PRICE),
             base_price |-> Money(BASE_PRICE), volume_today |-> 0,
             previous_close |-> Money(BASE_PRICE),
             daily_high |-> Money(BASE_PRICE),
             daily_low |-> Money(BASE_PRICE),
             all_time_high |-> Money(BASE_PRICE),
             all_time_low |-> Money(BASE_PRICE)])]
    [] s.k = "ins_wallet" ->
         [d EXCEPT !.wallets = Put(@, s.u,
            [balance |-> Money(STARTING_BALANCE),
             lifetime_dividends |-> 0, last_active |-> NoDate])]
    [] s.k = "news_rec" ->
         [d EXCEPT !.market_news = Min(@ + 1, MaxEvents)]
    [] s.k = "impact" ->
         IF s.u \in DOMAIN d.stocks
         THEN [d EXCEPT !.stocks[s.u].current_price
                          = MulDiv(@, 100 + s.impact, 100)]
         ELSE d
    [] s.k = "act_ins" ->
         IF <<s.u, s.date>> \in DOMAIN d.activity_metrics
         THEN d
         ELSE [d EXCEPT !.activity_metrics = Put(@, <<s.u, s.date>>,
                 [messages |-> 0, reactions_received |-> 0,
                  voice_minutes |-> 0, replies_received |-> 0,
                  mentions_received |-> 0])]
    [] s.k = "act_upd" ->
         IF <<s.u, s.date>> \in DOMAIN d.activity_metrics
         THEN [d EXCEPT !.activity_metrics[<<s.u, s.date>>][s.column]
                          = @ + s.count]
         ELSE d
    [] s.k = "last_active" ->
         IF s.u \in DOMAIN d.wallets
         THEN [d EXCEPT !.wallets[s.u].last_active = s.date] ELSE d
    [] s.k = "act_del" ->
         [d EXCEPT !.activity_metrics =
            Del(@, {key \in DOMAIN @ : key[1] = s.u})]
    [] s.k = "dividend" ->
         IF s.u \in DOMAIN d.wallets
         THEN [d EXCEPT !.wallets[s.u].balance = @ + s.dividend,
                        !.wallets[s.u].lifetime_dividends = @ + s.dividend]
         ELSE d
    [] s.k = "bal" ->
         IF s.u \in DOMAIN d.wallets
         THEN [d EXCEPT !.wallets[s.u].balance = @ + s.delta] ELSE d
    [] s.k = "avail" ->
         IF s.u \in DOMAIN d.users
         THEN [d EXCEPT !.users[s.u].shares_available = @ + s.delta] ELSE d
    [] s.k = "hold_upd" ->
         IF <<s.h, s.s>> \in DOMAIN d.portfolios
         THEN [d EXCEPT !.portfolios[<<s.h, s.s>>] =
                 [shares |-> s.shares, avg_buy_price |-> s.avg,
                  locked_until |-> s.until]]
         ELSE d
    [] s.k = "hold_ins" ->
         [d EXCEPT !.portfolios = Put(@, <<s.h, s.s>>,
            [shares |-> s.shares, avg_buy_price |-> s.avg,
             locked_until |-> s.until])]
    [] s.k = "hold_shares" ->
         IF <<s.h, s.s>> \in DOMAIN d.portfolios
         THEN [d EXCEPT !.portfolios[<<s.h, s.s>>].shares = s.shares]
         ELSE d
    [] s.k = "hold_del" ->
         [d EXCEPT !.portfolios = Del(@, {<<s.h, s.s>>})]
    [] s.k = "tx" -> [d EXCEPT !.transactions = @ + 1]
    [] s.k = "vol" ->
         IF s.u \in DOMAIN d.stocks
         THEN [d EXCEPT !.stocks[s.u].volume_today = @ + s.n] ELSE d
    [] s.k = "short_ins" ->
         [d EXCEPT !.short_positions =
                     Put(@, d.next_id, [s.row EXCEPT !.id = d.next_id]),
                   !.next_id = @ + 1]
    [] s.k = "short_del" ->
         [d EXCEPT !.short_positions = Del(@, {s.id})]
    [] s.k = "short_upd" ->
         IF s.id \in DOMAIN d.short_positions
         THEN [d EXCEPT !.short_positions[s.id].shares = s.shares,
                        !.short_positions[s.id].collateral = s.collateral]
         ELSE d
    [] s.k = "split_stock" ->
         IF s.u \in DOMAIN d.stocks
         THEN [d EXCEPT !.stocks[s.u].current_price = s.price,
                        !.stocks[s.u].base_price = @ \div s.ratio,
                        !.stocks[s.u].previous_close = @ \div s.ratio,
                        !.stocks[s.u].daily_high = @ \div s.ratio,
                        !.stocks[s.u].daily_low = @ \div s.ratio]
         ELSE d
    [] s.k = "split_user" ->
         IF s.u \in DOMAIN d.users
         THEN [d EXCEPT !.users[s.u].total_shares = s.total,
                        !.users[s.u].shares_available = @ * s.ratio]
         ELSE d
    [] s.k = "split_port" ->
         [d EXCEPT !.portfolios =
            [key \in DOMAIN @ |->
               IF HoldsStock(key, s.u)
               THEN [@[key] EXCEPT !.shares = @ * s.ratio,
                                   !.avg_buy_price = @ \div s.ratio]
               ELSE @[key]]]
    [] s.k = "split_rec" -> [d EXCEPT !.stock_splits = @ + 1]
    [] s.k = "del_stock" -> [d EXCEPT !.stocks = Del(@, {s.u})]
    [] s.k = "del_port_holder" ->
         [d EXCEPT !.portfolios =
            Del(@, {key \in DOMAIN @ : key[1] = s.u})]
    [] s.k = "del_port_stock" ->
         [d EXCEPT !.portfolios =
            Del(@, {key \in DOMAIN @ : key[2] = s.u})]
    [] s.k = "del_wallet" -> [d EXCEPT !.wallets = Del(@, {s.u})]
    [] s.k = "del_user" -> [d EXCEPT !.users = Del(@, {s.u})]
    [] s.k = "price" ->
         IF s.u \in DOMAIN d.stocks
         THEN [d EXCEPT !.stocks[s.u].current_price = s.price,
                        !.stocks[s.u].daily_high = s.range.daily_high,
                        !.stocks[s.u].daily_low = s.range.daily_low,
                        !.stocks[s.u].all_time_high = s.range.all_time_high,
                        !.stocks[s.u].all_time_low = s.range.all_time_low]
         ELSE d
    [] s.k = "optout" ->
         IF s.u \in DOMAIN d.users
         THEN [d EXCEPT !.users[s.u].opted_out = TRUE] ELSE d
    [] s.k = "order_ins" ->
         [d EXCEPT !.limit_orders =
                     Put(@, d.next_id, [s.row EXCEPT !.id = d.next_id]),
                   !.next_id = @ + 1]
    [] s.k = "order_del" ->
         [d EXCEPT !.limit_orders = Del(@, {s.id})]
    [] s.k = "market" ->
         [d EXCEPT !.stocks =
            [u \in DOMAIN @ |->
               LET stock == d.stocks[u]
                   moved == MulDiv(stock.current_price, s.magnitude, 100)
               IN  [stock EXCEPT
                      !.current_price = moved,
                      !.daily_high = IF moved > stock.daily_high
                                     THEN moved ELSE stock.daily_high,
                      !.daily_low = IF moved < stock.daily_low
                                    THEN moved ELSE stock.daily_low]]]
    [] s.k = "event_rec" ->
         [d EXCEPT !.market_events = Min(@ + 1, MaxEvents)]
    [] s.k = "daily_reset" ->
         [d EXCEPT !.stocks =
            [u \in DOMAIN @ |->
               [@[u] EXCEPT !.previous_close = d.stocks[u].current_price,
                            !.daily_high = d.stocks[u].current_price,
                            !.daily_low = d.stocks[u].current_price,
                            !.volume_today = 0]]]
    [] s.k = "fund_ins" ->
         [d EXCEPT !.hedge_funds =
                     Put(@, d.next_id, [id |-> d.next_id, name |-> s.name,
                                        founder_id |-> s.u, treasury |-> 0]),
                   !.next_id = @ + 1]
    [] s.k = "member_ins" ->
         [d EXCEPT !.hedge_fund_members =
                     Put(@, <<d.next_id - 1, s.u>>,
                         [contribution |-> 0, share_pct |-> 100])]
    [] s.k = "treasury" ->
         IF s.id \in DOMAIN d.hedge_funds
         THEN [d EXCEPT !.hedge_funds[s.id].treasury = @ + s.amount] ELSE d
    [] s.k = "contrib" ->
         IF <<s.id, s.u>> \in DOMAIN d.hedge_fund_members
         THEN [d EXCEPT !.hedge_fund_members[<<s.id, s.u>>].contribution
                          = @ + s.amount]
         ELSE d
    [] s.k = "share_pct" ->
         [d EXCEPT !.hedge_fund_members =
            [key \in DOMAIN @ |->
               IF key[1] = s.id
               THEN [@[key] EXCEPT !.share_pct
                      = MulDiv(d.hedge_fund_members[key].contribution,
                               100, s.total)]
               ELSE @[key]]]
    [] OTHER -> d

(* ------------------------------ queries ------------------------------- *)
(* The unlocked SELECTs of Database; each reads the connection (db).      *)
get_wallet(d, u) == IF u \in DOMAIN d.wallets THEN <<d.wallets[u]>> ELSE <<>>
get_stock(d, u) == IF u \in DOMAIN d.stocks THEN <<d.stocks[u]>> ELSE <<>>
get_user(d, u) == IF u \in DOMAIN d.users THEN <<d.users[u]>> ELSE <<>>
get_available_shares(d, s) ==
  IF s \in DOMAIN d.users THEN d.users[s].shares_available ELSE 0
get_holding(d, h, s) ==
  IF <<h, s>> \in DOMAIN d.portfolios THEN <<d.portfolios[<<h, s>>]>> ELSE <<>>
is_opted_out(d, u) == IF u \in DOMAIN d.users THEN d.users[u].opted_out ELSE FALSE

(* ------------------------- locked sections ---------------------------- *)
(* Each operator is the body of one `async with self._lock` block: the    *)
(* reads it makes under the lock decide ok, and q lists the statements it *)
(* then issues, ending with commit().  q = <<>>: it returns without       *)
(* writing.                                                               *)
Refuse(msg) == [ok |-> FALSE, msg |-> msg, q |-> <<>>]
Accept(q) == [ok |-> TRUE, msg |-> "ok", q |-> q]

get_or_create_user(d, u) ==
  IF u \in DOMAIN d.users
  THEN [ok |-> TRUE, msg |-> "exists", q |-> <<>>]
  ELSE Accept(<<InsertUser(u), InsertStock(u), InsertWallet(u), CommitStmt>>)

(* max_ownership = int(stock_user['total_shares'] * 0.1); the variant     *)
(* allows twice as much                                                   *)
max_ownership_bad(total_shares) == (total_shares * 2 * OWNERSHIP_LIMIT_PCT) \div 100
max_ownership(total_shares) == (total_shares * OWNERSHIP_LIMIT_PCT) \div 100

(* new_avg of execute_buy; the variant divides by the shares bought *)
new_avg_bad(current_shares, avg_buy_price, shares, price_per_share) ==
  (current_shares * avg_buy_price + shares * price_per_share) \div shares

new_avg(current_shares, avg_buy_price, shares, price_per_share) ==
  (current_shares * avg_buy_price + shares * price_per_share)
    \div (current_shares + shares)

execute_buy(d, buyer_id, stock_id, shares, price_per_share, time) ==
  LET total_cost == shares * price_per_share
      wallet == get_wallet(d, buyer_id)
      available == get_available_shares(d, stock_id)
      existing == get_holding(d, buyer_id, stock_id)
      current_shares == IF existing # <<>> THEN existing[1].shares ELSE 0
      until == time + LOCKUP_HOURS
  IN  IF wallet = <<>> THEN Refuse("register")
      ELSE IF wallet[1].balance < total_cost THEN Refuse("funds")
      ELSE IF available < shares THEN Refuse("available")
      ELSE IF current_shares + shares
                > max_ownership(d.users[stock_id].total_shares)
      THEN Refuse("ownership")
      ELSE Accept(
        << UpdateBalance(buyer_id, 0 - total_cost),
           UpdateAvailable(stock_id, 0 - shares),
           IF existing # <<>>
           THEN UpdateHolding(buyer_id, stock_id, current_shares + shares,
                  new_avg(current_shares, existing[1].avg_buy_price, shares,
                          price_per_share),
                  until)
           ELSE InsertHolding(buyer_id, stock_id, shares, price_per_share,
                              until),
           InsertTransaction,
           UpdateVolume(stock_id, shares),
           CommitStmt >>)

(* not (holding['shares'] < shares); the variant does not compare *)
owns_anything(holding, shares) == TRUE
owns_enough(holding, shares) == ~(holding.shares < shares)

(* new_shares == 0; the variant updates the row whatever is left *)
sell_keeps_row(holding, shares) == FALSE
sell_deletes_row(holding, shares) == holding.shares - shares = 0

execute_sell(d, seller_id, stock_id, shares, price_per_share, time) ==
  LET holding == get_holding(d, seller_id, stock_id)
      total_value == shares * price_per_share
  IN  IF holding = <<>> THEN Refuse("owned")
      ELSE IF ~owns_enough(holding[1], shares) THEN Refuse("owned")
      ELSE IF time < holding[1].locked_until THEN Refuse("locked")
      ELSE Accept(
        << UpdateBalance(seller_id, total_value),
           UpdateAvailable(stock_id, shares),
           IF sell_deletes_row(holding[1], shares)
           THEN DeleteHolding(seller_id, stock_id)
           ELSE UpdateHoldingShares(seller_id, stock_id,
                                    holding[1].shares - shares),
           InsertTransaction,
           UpdateVolume(stock_id, shares),
           CommitStmt >>)

(* open_short's arithmetic (advanced_trading.py:72-84) *)
RequiredCollateral(position_value) ==
  MulDiv(position_value, MARGIN_REQUIREMENT, 100)
(* the variant takes the margin call price from the liquidation threshold *)
MarginCallPriceBad(price) ==
  MulDiv(price, 100 + (MARGIN_REQUIREMENT - LIQUIDATION_THRESHOLD), 100)
MarginCallPrice(price) ==
  MulDiv(price, 100 + (MARGIN_REQUIREMENT - MARGIN_CALL_THRESHOLD), 100)
LiquidationPrice(price) ==
  MulDiv(price, 100 + (MARGIN_REQUIREMENT - LIQUIDATION_THRESHOLD), 100)

(* the write section of open_short: no read is made under the lock *)
open_short_section(user_id, stock_id, shares, price, collateral, time) ==
  Accept(
    << UpdateBalance(user_id, 0 - collateral),
       UpdateBalance(user_id, shares * price),
       InsertShort([id |-> 0, holder_id |-> user_id, stock_id |-> stock_id,
                    shares |-> shares, entry_price |-> price,
                    collateral |-> collateral,
                    margin_call_price |-> MarginCallPrice(price),
                    liquidation_price |-> LiquidationPrice(price),
                    created_at |-> time]),
       InsertTransaction,
       CommitStmt >>)

(* the variant hands back the sale proceeds in place of the collateral *)
CollateralReturnBad(position, shares) == shares * position.entry_price
(* close_short's arithmetic on the position it read before the lock *)
CollateralReturn(position, shares) ==
  MulDiv(position.collateral, shares, position.shares)

(* the write section of close_short: position is the row read before the  *)
(* lock was taken                                                         *)
close_short_section(user_id, position, shares, current_price) ==
  LET cover_cost == shares * current_price
      collateral_return == CollateralReturn(position, shares)
      remaining == position.shares - shares
  IN  Accept(
        << UpdateBalance(user_id, 0 - cover_cost),
           UpdateBalance(user_id, collateral_return),
           IF remaining = 0
           THEN DeleteShort(position.id)
           ELSE UpdateShort(position.id, remaining,
                            position.collateral - collateral_return),
           InsertTransaction,
           CommitStmt >>)

(* _liquidate_short: position is a row of margin_check's snapshot, joined *)
(* with the price of that moment                                          *)
liquidate_short_section(position) ==
  LET cover_cost == position.shares * position.current_price
      remaining_collateral == Max(0, position.collateral - cover_cost)
  IN  Accept(
        << UpdateBalance(position.holder_id, remaining_collateral),
           DeleteShort(position.id),
           CommitStmt >>)

(* the write section of _execute_split: old_price and old_shares were     *)
(* read before the lock was taken                                         *)
execute_split_section(user_id, ratio, old_price, old_shares) ==
  Accept(
    << SplitStock(user_id, old_price \div ratio, ratio),
       SplitUser(user_id, old_shares * ratio, ratio),
       SplitPortfolios(user_id, ratio),
       InsertSplit,
       CommitStmt >>)

remove_user_completely(user_id) ==
  Accept(
    << DeleteStock(user_id),
       DeletePortfolioOf(user_id),
       DeletePortfolioIn(user_id),
       DeleteWallet(user_id),
       DeleteActivity(user_id),
       DeleteUser(user_id),
       CommitStmt >>)

update_stock_price(d, user_id, new_price) ==
  IF user_id \notin DOMAIN d.stocks
  THEN Refuse("no stock")
  ELSE LET stock == d.stocks[user_id]
       IN  Accept(
             << UpdatePrice(user_id, new_price,
                  [daily_high |-> Max(stock.daily_high, new_price),
                   daily_low |-> Min(stock.daily_low, new_price),
                   all_time_high |-> Max(stock.all_time_high, new_price),
                   all_time_low |-> Min(stock.all_time_low, new_price)]),
                CommitStmt >>)

opt_out_user(user_id) == Accept(<< SetOptedOut(user_id), CommitStmt >>)

(* the lock block of record_market_news; impact is in percent.  The       *)
(* market_news table is kept as its number of rows, up to MaxEvents       *)
record_market_news(user_id, impact) ==
  Accept(<< InsertNews, ImpactPrice(user_id, impact), CommitStmt >>)

(* the lock block of record_activity; column is column_map[activity_type] *)
record_activity_section(user_id, column, count, today) ==
  Accept(
    << InsertActivity(user_id, today),
       UpdateActivity(user_id, today, column, count),
       UpdateLastActive(user_id, today),
       CommitStmt >>)

create_limit_order(user_id, stock_id, shares, target_price, order_type) ==
  Accept(
    << InsertOrder([id |-> 0, user_id |-> user_id, stock_id |-> stock_id,
                    shares |-> shares, target_price |-> target_price,
                    order_type |-> order_type]),
       CommitStmt >>)

delete_limit_order(order_id) == Accept(<< DeleteOrder(order_id), CommitStmt >>)

daily_reset == Accept(<< ResetDaily, CommitStmt >>)

(* the variant records no event *)
trigger_market_event_bad(magnitude) ==
  Accept(<< UpdateAllPrices(magnitude), CommitStmt >>)
(* the lock block of _trigger_market_event; magnitude is in percent.  The *)
(* market_events table is kept as its number of rows, up to MaxEvents     *)
trigger_market_event(magnitude) ==
  Accept(<< UpdateAllPrices(magnitude), InsertMarketEvent, CommitStmt >>)

(* the variant pays the daily rate every hour *)
DividendBad(shares, current_price) ==
  MulDiv(current_price, shares * DIVIDEND_PCT_PER_DAY, 100)
(* pay_dividends: dividend = shares * current_price * (0.02 / 24) *)
Dividend(shares, current_price) ==
  MulDiv(current_price, shares * DIVIDEND_PCT_PER_DAY, 100 * HOURS_PER_DAY)

(* the rows of pay_dividends' SELECT: portfolios JOIN stocks WHERE        *)
(* shares > 0, by holder and security                                     *)
RECURSIVE Holdings(_, _)
Holdings(d, keys) ==
  IF keys = {} THEN <<>>
  ELSE LET k == CHOOSE x \in keys :
                  \A y \in keys : x[1] < y[1] \/ (x[1] = y[1] /\ x[2] <= y[2])
       IN  << [holder_id |-> k[1], shares |-> d.portfolios[k].shares,
               current_price |-> d.stocks[k[2]].current_price] >>
             \o Holdings(d, keys \ {k})

(* the loop of pay_dividends over those rows, inside its one lock block *)
RECURSIVE Payouts(_)
Payouts(holdings) ==
  IF holdings = <<>> THEN <<>>
  ELSE LET holding == Head(holdings)
           dividend == Dividend(holding.shares, holding.current_price)
       IN  (IF dividend > 0
            THEN << PayDividend(holding.holder_id, dividend) >>
            ELSE <<>>) \o Payouts(Tail(holdings))

pay_dividends(d) ==
  LET holdings == Holdings(d, {k \in DOMAIN d.portfolios :
                                 /\ k[2] \in DOMAIN d.stocks
                                 /\ d.portfolios[k].shares > 0})
  IN  Accept(Payouts(holdings) \o << CommitStmt >>)

(* the lock section of fund_create: the name is looked up under the lock, *)
(* the balance was checked before it                                      *)
fund_create_section(d, user_id, name) ==
  IF \E id \in DOMAIN d.hedge_funds : d.hedge_funds[id].name = name
  THEN Refuse("taken")
  ELSE Accept(
    << UpdateBalance(user_id, 0 - Money(FUND_CREATION_COST)),
       InsertFund(name, user_id),
       InsertFounder(user_id),
       CommitStmt >>)

(* the lock section of fund_deposit: no read is made under the lock *)
fund_deposit_section(user_id, fund_id, amount) ==
  Accept(
    << UpdateBalance(user_id, 0 - amount),
       UpdateTreasury(fund_id, amount),
       UpdateContribution(fund_id, user_id, amount),
       CommitStmt >>)

(* fund_deposit's SELECT: the first fund the user is a member of *)
FundOf(d, user_id) ==
  LET ids == {k[1] : k \in {x \in DOMAIN d.hedge_fund_members :
                                 x[2] = user_id /\ x[1] \in DOMAIN d.hedge_funds}}
  IN  IF ids = {} THEN <<>>
      ELSE <<d.hedge_funds[CHOOSE i \in ids : \A j \in ids : i <= j]>>

(* _recalculate_fund_shares' SELECT SUM(contribution) *)
RECURSIVE SumContribution(_, _)
SumContribution(d, keys) ==
  IF keys = {} THEN 0
  ELSE LET k == CHOOSE x \in keys : TRUE
       IN  d.hedge_fund_members[k].contribution
             + SumContribution(d, keys \ {k})

(* ------------------------------ pricing ------------------------------- *)
(* ActivityMetrics as price_update builds it from an activity_metrics row *)
Metrics(messages, unique_reactors, voice_minutes, replies, mentions_received) ==
  [messages |-> messages, reactions_received |-> 0,
   unique_reactors |-> unique_reactors,
   voice_minutes |-> voice_minutes, replies_received |-> replies,
   mentions_received |-> mentions_received]

(* the variant forgets the first 50 messages once there are more *)
calculate_activity_multiplier_bad(m) ==
  Max(10000,
      10000
      + (IF m.messages <= 50
         THEN m.messages * 50
         ELSE (m.messages - 50) * 25)
      + m.unique_reactors * 200
      + m.voice_minutes * 10
      + m.replies_received * 300
      + m.mentions_received * 100)
(* the multiplier, in 1/10000 *)
calculate_activity_multiplier(m) ==
  Max(10000,
      10000
      + (IF m.messages <= 50
         THEN m.messages * 50
         ELSE 50 * 50 + (m.messages - 50) * 25)
      + m.unique_reactors * 200
      + m.voice_minutes * 10
      + m.replies_received * 300
      + m.mentions_received * 100)

(* the variant counts the first day twice *)
calculate_streak_bonus_bad(consecutive_days) == Min(11 + consecutive_days, 20)
(* the multiplier, in 1/10 *)
calculate_streak_bonus(consecutive_days) == Min(10 + consecutive_days, 20)

RECURSIVE InactivityDecay(_, _)
InactivityDecay(price, days_inactive) ==
  IF days_inactive <= 0 THEN price
  ELSE InactivityDecay(MulDiv(price, 95, 100), days_inactive - 1)

RoundToCents(price) == ((price + 50) \div 100) * 100

(* DemandData(): the demand calculate_price takes when none is given *)
DemandData == [buy_orders_24h |-> 0, sell_orders_24h |-> 0, total_shares |-> 1000]

(* the modifier, in 1/10000 *)
calculate_demand_modifier(demand) ==
  IF demand.total_shares = 0 THEN 10000
  ELSE LET net_demand == demand.buy_orders_24h - demand.sell_orders_24h
       IN  Max(5000,
               Min(15000, 10000 + (net_demand * 1000) \div demand.total_shares))

(* the variant leaves the floor out of the helper *)
calculate_inactivity_decay_bad(days_inactive, current_price) ==
  InactivityDecay(current_price, days_inactive)
calculate_inactivity_decay(days_inactive, current_price) ==
  IF days_inactive <= 0 THEN current_price
  ELSE Max(Money(10), InactivityDecay(current_price, days_inactive))

calculate_price(base_price, m, consecutive_days, demand, days_inactive) ==
  LET activity == MulDiv(base_price, calculate_activity_multiplier(m), 10000)
      streak == MulDiv(activity, calculate_streak_bonus(consecutive_days), 10)
      demanded == MulDiv(streak, calculate_demand_modifier(demand), 10000)
      decayed == InactivityDecay(demanded, days_inactive)
  IN  Max(Money(10), RoundToCents(decayed))

(* price_update's decay of an opted-out security: price * 0.999 *)
OptOutDecay(current_price) ==
  current_price
    - (current_price * (1000 - OPT_OUT_DECAY_PERMILLE) + 999) \div 1000

(* what price_update may find for a member: today's activity_metrics row  *)
(* and the days since wallets.last_active                                 *)
Quiet == [metrics |-> Metrics(0, 0, 0, 0, 0), days_inactive |-> 0]
ActivityRows ==
  { Quiet,
    [metrics |-> Metrics(0, 0, 0, 0, 45), days_inactive |-> 0],
    [metrics |-> Metrics(0, 0, 0, 0, 0), days_inactive |-> 10] }

(* ---- the pricing engine on its own ---- *)
(* the inputs the engine is called with *)
MessageCounts == {0, 10, 50, 60}
ReactorCounts == {0, 3}
VoiceMinutes == {0, 30}
ReplyCounts == {0, 2}
MentionCounts == {0, 5}
BasePrices == {0, 15, 100}
Streaks == {0, 12}
InactiveDays == {0, 10, 30}
Demands ==
  { DemandData,
    [buy_orders_24h |-> 500, sell_orders_24h |-> 0, total_shares |-> 1000],
    [buy_orders_24h |-> 0, sell_orders_24h |-> 6000, total_shares |-> 1000] }

MetricsInputs ==
  { Metrics(me, ur, vm, rr, mr) :
      me \in MessageCounts, ur \in ReactorCounts, vm \in VoiceMinutes,
      rr \in ReplyCounts, mr \in MentionCounts }

(* metrics a are at least metrics b in every engagement metric *)
Dominates(a, b) ==
  /\ a.messages >= b.messages
  /\ a.unique_reactors >= b.unique_reactors
  /\ a.voice_minutes >= b.voice_minutes
  /\ a.replies_received >= b.replies_received
  /\ a.mentions_received >= b.mentions_received

(* a call of the engine that is still to be made: for metrics a and for   *)
(* metrics b, everything else equal                                       *)
Quotes ==
  { [kind |-> "quote", a |-> ab[1], b |-> ab[2], base_price |-> Money(bp),
     consecutive_days |-> cd, demand |-> dm, days_inactive |-> di] :
      ab \in {x \in MetricsInputs \X MetricsInputs : Dominates(x[1], x[2])},
      bp \in BasePrices, cd \in Streaks, dm \in Demands,
      di \in InactiveDays }

(* PricingEngine.calculate_price and calculate_inactivity_decay are       *)
(* called, and price_update's decay of an opted-out security is applied   *)
(* to the price that came out                                             *)
quote ==
  /\ probe.kind = "quote"
  /\ probe' =
       [kind |-> "priced", a |-> probe.a, b |-> probe.b,
        base_price |-> probe.base_price,
        consecutive_days |-> probe.consecutive_days,
        demand |-> probe.demand, days_inactive |-> probe.days_inactive,
        multiplier |-> calculate_activity_multiplier(probe.a),
        price |-> calculate_price(probe.base_price, probe.a,
                                  probe.consecutive_days, probe.demand,
                                  probe.days_inactive),
        price_b |-> calculate_price(probe.base_price, probe.b,
                                    probe.consecutive_days, probe.demand,
                                    probe.days_inactive),
        decayed |-> calculate_inactivity_decay(probe.days_inactive,
                                               probe.base_price),
        opted_out |-> OptOutDecay(calculate_price(probe.base_price, probe.a,
                                                  probe.consecutive_days,
                                                  probe.demand,
                                                  probe.days_inactive))]
  /\ UNCHANGED <<db, disk, lock, task, now, nops, utc_offset, loops, mem>>

(* ------------------------------ snapshots ----------------------------- *)
RECURSIVE SortedSeq(_)
SortedSeq(S) ==
  IF S = {} THEN <<>>
  ELSE LET m == CHOOSE x \in S : \A y \in S : x <= y
       IN  <<m>> \o SortedSeq(S \ {m})

(* price_update's SELECT: users JOIN stocks LEFT JOIN wallets *)
PriceUpdateRow(d, u) ==
  [user_id |-> u, opted_out |-> d.users[u].opted_out,
   base_price |-> d.stocks[u].base_price,
   current_price |-> d.stocks[u].current_price,
   last_active |-> IF u \in DOMAIN d.wallets
                   THEN d.wallets[u].last_active ELSE NoDate]

PriceUpdateSnapshot(d) ==
  LET ids == SortedSeq(DOMAIN d.users \cap DOMAIN d.stocks)
  IN  [i \in 1..Len(ids) |-> PriceUpdateRow(d, ids[i])]

(* margin_check's SELECT: short_positions JOIN users JOIN stocks *)
MarginRow(d, id) ==
  LET sp == d.short_positions[id]
  IN  [id |-> id, holder_id |-> sp.holder_id, stock_id |-> sp.stock_id,
       shares |-> sp.shares, entry_price |-> sp.entry_price,
       collateral |-> sp.collateral,
       liquidation_price |-> sp.liquidation_price,
       current_price |-> d.stocks[sp.stock_id].current_price]

MarginSnapshot(d) ==
  LET ids == SortedSeq({id \in DOMAIN d.short_positions :
                          d.short_positions[id].stock_id
                            \in DOMAIN d.users \cap DOMAIN d.stocks})
  IN  [i \in 1..Len(ids) |-> MarginRow(d, ids[i])]

(* the loop of margin_check runs without an await up to the next position *)
(* it liquidates                                                          *)
RECURSIVE ToLiquidate(_)
ToLiquidate(rows) ==
  IF rows = <<>> THEN <<>>
  ELSE IF Head(rows).current_price >= Head(rows).liquidation_price
       THEN rows
       ELSE ToLiquidate(Tail(rows))

(* split_checker's SELECT: stocks JOIN users WHERE current_price >= ? *)
SplitSnapshot(d) ==
  SortedSeq({u \in DOMAIN d.stocks \cap DOMAIN d.users :
               d.stocks[u].current_price >= Money(SPLIT_THRESHOLD)})

get_pending_limit_orders(d) ==
  LET ids == SortedSeq(DOMAIN d.limit_orders)
  IN  [i \in 1..Len(ids) |-> d.limit_orders[ids[i]]]

(* ------------------------------- tasks -------------------------------- *)
(* A task is one running coroutine: a command handler or one turn of a    *)
(* periodic job.  pc = "wait": it waits for db._lock; "run": it holds the *)
(* lock and q lists the statements it has still to issue; "read": it is   *)
(* at an await outside the lock.  did tells whether it has committed.     *)
Idle == [op |-> "idle", pc |-> "idle"]

(* Python's datetime.now() at UTC hour time: the host's local time, which *)
(* is utc_offset hours ahead of SQLite's datetime('now')                  *)
datetime_now(time) == time + utc_offset

(* Python's date.today(), in days *)
date_today(time) == datetime_now(time) \div HOURS_PER_DAY

(* the body of the `async with db._lock` block task tk is about to enter  *)
Section(d, tk, time) ==
  CASE tk.stage = "ensure_author" -> get_or_create_user(d, tk.who)
    [] tk.stage = "ensure_target" -> get_or_create_user(d, tk.stock)
    [] tk.stage = "execute_buy" ->
         execute_buy(d, tk.who, tk.stock, tk.shares, tk.price, time)
    [] tk.stage = "execute_sell" ->
         execute_sell(d, tk.who, tk.stock, tk.shares, tk.price,
                      datetime_now(time))
    [] tk.stage = "open_short" ->
         open_short_section(tk.who, tk.stock, tk.shares, tk.price,
                            tk.collateral, time)
    [] tk.stage = "close_short" ->
         close_short_section(tk.who, tk.position, tk.shares, tk.price)
    [] tk.stage = "execute_split" ->
         execute_split_section(tk.stock, tk.ratio, tk.price, tk.old_shares)
    [] tk.stage = "opt_out_user" -> opt_out_user(tk.who)
    [] tk.stage = "record_market_news" ->
         record_market_news(tk.who, tk.impact)
    [] tk.stage = "record_activity" ->
         record_activity_section(tk.who, tk.column, tk.count,
                                 date_today(time))
    [] tk.stage = "create_limit_order" ->
         create_limit_order(tk.who, tk.stock, tk.shares, tk.price,
                            tk.order_type)
    [] tk.stage = "remove_user" -> remove_user_completely(tk.who)
    [] tk.stage = "update_price" -> update_stock_price(d, tk.who, tk.price)
    [] tk.stage = "liquidate" -> liquidate_short_section(Head(tk.todo))
    [] tk.stage = "order_buy" ->
         execute_buy(d, Head(tk.todo).user_id, Head(tk.todo).stock_id,
                     Head(tk.todo).shares, tk.price, time)
    [] tk.stage = "order_sell" ->
         execute_sell(d, Head(tk.todo).user_id, Head(tk.todo).stock_id,
                      Head(tk.todo).shares, tk.price, datetime_now(time))
    [] tk.stage = "order_delete" -> delete_limit_order(Head(tk.todo).id)
    [] tk.stage = "daily_reset" -> daily_reset
    [] tk.stage = "market_event" -> trigger_market_event(tk.magnitude)
    [] tk.stage = "pay_dividends" -> pay_dividends(d)
    [] tk.stage = "fund_create" -> fund_create_section(d, tk.who, tk.name)
    [] tk.stage = "fund_deposit" ->
         fund_deposit_section(tk.who, tk.fund, tk.amount)

(* where task tk goes on when that block is left *)
After(tk) ==
  CASE tk.op \in {"buy", "sell", "optout", "engage"}
       /\ tk.stage = "ensure_author" ->
         IF tk.op = "buy"
         THEN [tk EXCEPT !.pc = "wait", !.stage = "ensure_target"]
         ELSE [tk EXCEPT !.pc = "read"]
    [] tk.op = "buy" /\ tk.stage = "ensure_target" ->
         [tk EXCEPT !.pc = "read"]
    [] tk.op = "price_update" /\ tk.stage = "update_price" /\ tk.impact > 0 ->
         [tk EXCEPT !.pc = "read", !.stage = "news"]
    [] tk.op = "price_update"
       /\ tk.stage \in {"remove_user", "update_price", "record_market_news"} ->
         [op |-> "price_update", pc |-> "read", stage |-> "users",
          did |-> tk.did, todo |-> Tail(tk.todo)]
    [] tk.op = "price_update" /\ tk.stage \in {"order_buy", "order_sell"} ->
         [tk EXCEPT !.pc = "wait", !.stage = "order_delete"]
    [] tk.op = "price_update" /\ tk.stage = "order_delete" ->
         [op |-> "price_update", pc |-> "read", stage |-> "orders",
          did |-> tk.did, todo |-> Tail(tk.todo)]
    [] tk.op = "split_checker" ->
         [op |-> "split_checker", pc |-> "read", stage |-> "eligible",
          did |-> tk.did, todo |-> Tail(tk.todo)]
    [] tk.op = "deposit" -> [tk EXCEPT !.pc = "read"]
    [] tk.op = "margin_check" ->
         LET rest == ToLiquidate(Tail(tk.todo))
         IN  IF rest = <<>> THEN Idle ELSE [tk EXCEPT !.todo = rest,
                                                       !.pc = "wait"]
    [] OTHER -> Idle

(* nops counts the handlers that are running or have committed: one that  *)
(* returns without a commit leaves no trace                               *)
Returned(old, new) == new = Idle /\ ~old.did

(* the first idle slot takes the new coroutine *)
SpawnTask(tk) ==
  /\ nops < MaxOps
  /\ \E t \in Tasks :
       /\ task[t] = Idle
       /\ \A x \in Tasks : x < t => task[x] # Idle
       /\ task' = [task EXCEPT ![t] = tk]
  /\ nops' = nops + 1
Spawn(tk) ==
  /\ SpawnTask(tk)
  /\ UNCHANGED <<db, disk, lock, now, probe, utc_offset, loops, mem>>

(* bot.on_member_join *)
on_member_join(u) ==
  Spawn([op |-> "register", pc |-> "wait", stage |-> "ensure_author",
         did |-> FALSE, who |-> u])

(* Trading.buy_stock up to its first await *)
buy_stock(author, target, shares) ==
  /\ shares > 0
  /\ target # author
  /\ Spawn([op |-> "buy", pc |-> "wait", stage |-> "ensure_author",
            did |-> FALSE, who |-> author, stock |-> target,
            shares |-> shares, price |-> 0])

(* Trading.sell_stock up to its first await *)
sell_stock(author, target, shares) ==
  /\ shares > 0
  /\ Spawn([op |-> "sell", pc |-> "wait", stage |-> "ensure_author",
            did |-> FALSE, who |-> author, stock |-> target,
            shares |-> shares, price |-> 0])

(* Trading.opt_out up to its first await *)
opt_out(author) ==
  Spawn([op |-> "optout", pc |-> "wait", stage |-> "ensure_author",
         did |-> FALSE, who |-> author])

(* ActivityTracker.on_message, on_reaction_add and on_voice_state_update  *)
(* up to their first await: an engagement event that counts for member    *)
(* target in column column of today's activity_metrics row                *)
Columns == {"messages", "reactions_received", "voice_minutes", "replies_received", "mentions_received"}
record_event(target, column, count) ==
  Spawn([op |-> "engage", pc |-> "wait", stage |-> "ensure_author",
         did |-> FALSE, who |-> target, column |-> column, count |-> count,
         reactor |-> 0])

(* ActivityTracker.on_reaction_add up to its first await: a reactor who   *)
(* is new today for the target is added to _daily_reactors and counts     *)
Reactors(memory, target) ==
  IF target \in DOMAIN memory.daily_reactors
  THEN memory.daily_reactors[target] ELSE {}
on_reaction_add(target, reactor) ==
  /\ target # reactor
  /\ reactor \notin Reactors(mem, target)
  /\ SpawnTask([op |-> "engage", pc |-> "wait", stage |-> "ensure_author",
                did |-> FALSE, who |-> target,
                column |-> "reactions_received", count |-> 1,
                reactor |-> reactor])
  /\ mem' = [mem EXCEPT !.daily_reactors =
                          Put(@, target, Reactors(mem, target) \cup {reactor})]
  /\ UNCHANGED <<db, disk, lock, now, probe, utc_offset, loops>>

(* AdvancedTrading.open_short up to `async with db._lock`: the price and  *)
(* the balance are read here                                              *)
open_short(author, target, shares) ==
  /\ shares > 0
  /\ target # author
  /\ get_stock(db, target) # <<>>
  /\ LET price == get_stock(db, target)[1].current_price
         required_collateral == RequiredCollateral(shares * price)
         wallet == get_wallet(db, author)
     IN  /\ wallet # <<>>
         /\ ~(wallet[1].balance < required_collateral)
         /\ Spawn([op |-> "short", pc |-> "wait", stage |-> "open_short",
                   did |-> FALSE, who |-> author, stock |-> target,
                   shares |-> shares, price |-> price,
                   collateral |-> required_collateral])

(* AdvancedTrading.close_short up to `async with db._lock`: the position  *)
(* and the price are read here                                            *)
close_short(author, target, shares) ==
  /\ shares > 0
  /\ \E id \in DOMAIN db.short_positions :
       LET position == db.short_positions[id]
       IN  /\ position.holder_id = author
           /\ position.stock_id = target
           /\ ~(now < position.created_at + LOCKUP_HOURS)
           /\ ~(shares > position.shares)
           /\ get_stock(db, target) # <<>>
           /\ Spawn([op |-> "cover", pc |-> "wait", stage |-> "close_short",
                     did |-> FALSE, who |-> author, stock |-> target,
                     shares |-> shares, position |-> position,
                     price |-> get_stock(db, target)[1].current_price])

(* AdvancedTrading.force_split and _execute_split up to the lock: the     *)
(* price and total_shares are read here                                   *)
force_split(target, ratio) ==
  /\ ratio >= 2 /\ ratio <= 10
  /\ get_stock(db, target) # <<>>
  /\ get_user(db, target) # <<>>
  /\ Spawn([op |-> "split", pc |-> "wait", stage |-> "execute_split",
            did |-> FALSE, stock |-> target, ratio |-> ratio,
            price |-> get_stock(db, target)[1].current_price,
            old_shares |-> get_user(db, target)[1].total_shares])

(* AdvancedTrading.limit_buy / limit_sell up to create_limit_order *)
limit_order(author, target, shares, price, order_type) ==
  /\ shares > 0 /\ price > 0
  /\ get_stock(db, target) # <<>>
  /\ Spawn([op |-> "limit", pc |-> "wait", stage |-> "create_limit_order",
            did |-> FALSE, who |-> author, stock |-> target,
            shares |-> shares, price |-> price, order_type |-> order_type])

(* AdvancedTrading.fund_create up to `async with db._lock`: the balance   *)
(* is read here                                                           *)
fund_create(author, name) ==
  /\ get_wallet(db, author) # <<>>
  /\ ~(get_wallet(db, author)[1].balance < Money(FUND_CREATION_COST))
  /\ Spawn([op |-> "fund_create", pc |-> "wait", stage |-> "fund_create",
            did |-> FALSE, who |-> author, name |-> name])

(* AdvancedTrading.fund_deposit up to `async with db._lock`: the fund and *)
(* the balance are read here                                              *)
fund_deposit(author, amount) ==
  /\ amount > 0
  /\ FundOf(db, author) # <<>>
  /\ get_wallet(db, author) # <<>>
  /\ ~(get_wallet(db, author)[1].balance < amount)
  /\ Spawn([op |-> "deposit", pc |-> "wait", stage |-> "fund_deposit",
            did |-> FALSE, who |-> author, amount |-> amount,
            fund |-> FundOf(db, author)[1].id, total |-> 0])

(* the @tasks.loop jobs whose body is `try: ... except Exception`, and    *)
(* all the jobs started by the cogs                                       *)
Caught ==
  {"price_update", "margin_check", "split_checker", "dividend_payout",
   "market_event_roller"}
Jobs == Caught \cup {"daily_reset_task"}

(* a @tasks.loop job starts its next turn only when the last has ended *)
LoopIdle(op) == op \in loops /\ \A t \in Tasks : task[t].op # op

(* the observer of reactions starts afresh when the sets are cleared *)
Cleared(p) == IF p.kind = "reactors" THEN [p EXCEPT !.counted = NoRows] ELSE p

(* ActivityTracker.daily_reset_task up to `await db.daily_reset()` *)
daily_reset_task ==
  /\ LoopIdle("daily_reset_task")
  /\ SpawnTask([op |-> "daily_reset_task", pc |-> "wait",
                stage |-> "daily_reset", did |-> FALSE])
  /\ mem' = [mem EXCEPT !.daily_reactors = NoRows]
  /\ probe' = Cleared(probe)
  /\ UNCHANGED <<db, disk, lock, now, utc_offset, loops>>

(* AdvancedTrading.market_event_roller when the roll gives a crash or a   *)
(* boom, with the magnitude drawn by _trigger_market_event                *)
market_event_roller ==
  /\ LoopIdle("market_event_roller")
  /\ \E magnitude \in CrashMagnitudes \cup BoomMagnitudes :
       Spawn([op |-> "market_event_roller", pc |-> "wait",
              stage |-> "market_event", did |-> FALSE,
              magnitude |-> magnitude])

(* Economy.dividend_payout *)
dividend_payout ==
  /\ LoopIdle("dividend_payout")
  /\ Spawn([op |-> "dividend_payout", pc |-> "wait",
            stage |-> "pay_dividends", did |-> FALSE])

(* Economy.price_update: the SELECT over all users *)
price_update ==
  /\ LoopIdle("price_update")
  /\ Spawn([op |-> "price_update", pc |-> "read", stage |-> "users",
            did |-> FALSE, todo |-> PriceUpdateSnapshot(db)])

(* AdvancedTrading.margin_check: the SELECT over all positions, and the   *)
(* loop up to the first position to liquidate                             *)
margin_check ==
  /\ LoopIdle("margin_check")
  /\ ToLiquidate(MarginSnapshot(db)) # <<>>
  /\ Spawn([op |-> "margin_check", pc |-> "wait", stage |-> "liquidate",
            did |-> FALSE, todo |-> ToLiquidate(MarginSnapshot(db))])

(* AdvancedTrading.split_checker: the SELECT of the securities at or      *)
(* above the threshold                                                    *)
split_checker ==
  /\ LoopIdle("split_checker")
  /\ SplitSnapshot(db) # <<>>
  /\ Spawn([op |-> "split_checker", pc |-> "read", stage |-> "eligible",
            did |-> FALSE, todo |-> SplitSnapshot(db)])

(* the removal floor of price_update: new_price < 0.01 *)
BelowRemovalFloor(new_price) == new_price < CentsToMoney(REMOVAL_FLOOR_CENTS)

(* Economy._handle_potential_news: the news event the metrics call for,   *)
(* as its impact on the price in percent, and the cooldown                *)
VIRAL_REACTIONS == 20
FAVORITE_REPLIES == 10
NEWS_COOLDOWN_HOURS == 4
(* the variant looks at the replies first *)
NewsImpactBad(m) ==
  IF m.replies_received >= FAVORITE_REPLIES THEN 5
  ELSE IF m.reactions_received >= VIRAL_REACTIONS THEN 10
  ELSE 0
NewsImpact(m) ==
  IF m.reactions_received >= VIRAL_REACTIONS THEN 10
  ELSE IF m.replies_received >= FAVORITE_REPLIES THEN 5
  ELSE 0
CoolingDown(memory, user_id, time) ==
  /\ user_id \in DOMAIN memory.last_news_trigger
  /\ datetime_now(time)
       < memory.last_news_trigger[user_id] + NEWS_COOLDOWN_HOURS
(* _last_news_trigger once task tk has gone through the function *)
NewsTriggered(memory, tk, time) ==
  IF tk.op = "price_update" /\ tk.stage = "news"
     /\ ~CoolingDown(memory, tk.who, time)
  THEN [memory EXCEPT !.last_news_trigger =
                        Put(@, tk.who, datetime_now(time))]
  ELSE memory

(* what price_update finds for the member at the head of its list: the    *)
(* latest activity_metrics row of the last day (get_activity), without    *)
(* unique_reactors, and the days since the last_active of its snapshot    *)
get_activity(d, user_id, time) ==
  LET dates == {key[2] : key \in {x \in DOMAIN d.activity_metrics :
                                     x[1] = user_id /\ x[2] >= time \div HOURS_PER_DAY - 1}}
  IN  IF dates = {} THEN <<>>
      ELSE << d.activity_metrics[<<user_id, CHOOSE x \in dates :
                                             \A y \in dates : y <= x>>] >>
ActivityMetrics(row) ==
  [messages |-> row.messages, reactions_received |-> row.reactions_received,
   unique_reactors |-> 0, voice_minutes |-> row.voice_minutes,
   replies_received |-> row.replies_received,
   mentions_received |-> row.mentions_received]
Found(d, user, time) ==
  LET activity_data == get_activity(d, user.user_id, time)
  IN  [metrics |-> IF activity_data # <<>>
                   THEN ActivityMetrics(activity_data[1])
                   ELSE Metrics(0, 0, 0, 0, 0),
       days_inactive |-> IF user.last_active # NoDate
                         THEN date_today(time) - user.last_active ELSE 0]

(* the awaits of a handler outside the lock, after its first one: the     *)
(* task reads the connection and goes on to its next lock section, or     *)
(* returns                                                                *)
ReadStep(d, tk, activity, memory, time) ==
  CASE tk.op = "buy" ->
         IF get_stock(d, tk.stock) = <<>> \/ get_user(d, tk.stock) = <<>>
         THEN Idle
         ELSE IF get_user(d, tk.stock)[1].opted_out
         THEN Idle
         ELSE [tk EXCEPT !.pc = "wait", !.stage = "execute_buy",
                         !.price = get_stock(d, tk.stock)[1].current_price]
    [] tk.op = "sell" ->
         IF get_stock(d, tk.stock) = <<>>
         THEN Idle
         ELSE [tk EXCEPT !.pc = "wait", !.stage = "execute_sell",
                         !.price = get_stock(d, tk.stock)[1].current_price]
    [] tk.op = "optout" ->
         IF is_opted_out(d, tk.who)
         THEN Idle
         ELSE [tk EXCEPT !.pc = "wait", !.stage = "opt_out_user"]
    [] tk.op = "engage" ->
         IF is_opted_out(d, tk.who)
         THEN Idle
         ELSE [tk EXCEPT !.pc = "wait", !.stage = "record_activity"]
    [] tk.op = "deposit" ->
         LET total == SumContribution(d, {k \in DOMAIN d.hedge_fund_members :
                                            k[1] = tk.fund})
         IN  IF total > 0
             THEN [tk EXCEPT !.pc = "free", !.stage = "recalculate",
                             !.total = total]
             ELSE Idle
    [] tk.op = "split_checker" ->
         IF tk.todo = <<>>
         THEN Idle
         ELSE LET user_id == Head(tk.todo)
                  stock == get_stock(d, user_id)
                  user == get_user(d, user_id)
              IN  IF stock = <<>> \/ user = <<>>
                  THEN [tk EXCEPT !.todo = Tail(tk.todo)]
                  ELSE [op |-> "split_checker", pc |-> "wait",
                        stage |-> "execute_split", did |-> tk.did,
                        todo |-> tk.todo, stock |-> user_id, ratio |-> 2,
                        price |-> stock[1].current_price,
                        old_shares |-> user[1].total_shares]
    [] tk.op = "price_update" /\ tk.stage = "users" ->
         IF tk.todo = <<>>
         THEN [op |-> "price_update", pc |-> "read", stage |-> "orders",
               did |-> tk.did, todo |-> get_pending_limit_orders(d)]
         ELSE LET user == Head(tk.todo)
                  decayed == OptOutDecay(user.current_price)
              IN  IF user.opted_out
                  THEN IF BelowRemovalFloor(decayed)
                       THEN [op |-> "price_update", pc |-> "wait",
                             stage |-> "remove_user", did |-> tk.did,
                             todo |-> tk.todo, who |-> user.user_id]
                       ELSE [op |-> "price_update", pc |-> "wait",
                             stage |-> "update_price", did |-> tk.did,
                             todo |-> tk.todo, who |-> user.user_id,
                             price |-> decayed, impact |-> 0]
                  ELSE [op |-> "price_update", pc |-> "wait",
                        stage |-> "update_price", did |-> tk.did,
                        todo |-> tk.todo, who |-> user.user_id,
                        price |-> calculate_price(user.base_price,
                                                  activity.metrics, 0,
                                                  DemandData,
                                                  activity.days_inactive),
                        impact |-> NewsImpact(activity.metrics)]
    [] tk.op = "price_update" /\ tk.stage = "news" ->
         IF CoolingDown(memory, tk.who, time)
         THEN [op |-> "price_update", pc |-> "read", stage |-> "users",
               did |-> tk.did, todo |-> Tail(tk.todo)]
         ELSE [tk EXCEPT !.pc = "wait", !.stage = "record_market_news"]
    [] tk.op = "price_update" /\ tk.stage = "orders" ->
         IF tk.todo = <<>>
         THEN Idle
         ELSE LET order == Head(tk.todo)
                  stock == get_stock(d, order.stock_id)
                  skip == [tk EXCEPT !.todo = Tail(tk.todo)]
              IN  IF stock = <<>> THEN skip
                  ELSE IF order.order_type = "buy_low"
                          /\ stock[1].current_price <= order.target_price
                  THEN [op |-> "price_update", pc |-> "wait",
                        stage |-> "order_buy", did |-> tk.did,
                        todo |-> tk.todo, price |-> stock[1].current_price]
                  ELSE IF order.order_type = "sell_high"
                          /\ stock[1].current_price >= order.target_price
                  THEN [op |-> "price_update", pc |-> "wait",
                        stage |-> "order_sell", did |-> tk.did,
                        todo |-> tk.todo, price |-> stock[1].current_price]
                  ELSE skip

(* whether the read just made depends on the activity row found *)
ReadsActivity(tk) ==
  /\ tk.op = "price_update" /\ tk.stage = "users"
  /\ tk.todo # <<>>
  /\ ~Head(tk.todo).opted_out

(* the observer of news events: for each member the hour of the last     *)
(* news event triggered and the number of events so far                   *)
WatchingNews == [kind |-> "news", last |-> NoRows, events |-> NoRows]
NewsEvents(p, user_id) ==
  IF user_id \in DOMAIN p.events THEN p.events[user_id] ELSE 0
NewsSeen(p, tk, new, time) ==
  IF p.kind = "news" /\ tk.op = "price_update" /\ tk.stage = "news"
     /\ new.stage = "record_market_news"
  THEN [p EXCEPT !.last = Put(@, tk.who, time),
                 !.events = Put(@, tk.who, NewsEvents(p, tk.who) + 1)]
  ELSE p

ReadAs(t, rows) ==
  /\ task[t].pc = "read"
  /\ \E activity \in rows :
       /\ ReadsActivity(task[t]) \/ activity = Quiet
       /\ LET new == ReadStep(db, task[t], activity, mem, now)
          IN  /\ task' = [task EXCEPT ![t] = new]
              /\ nops' = IF Returned(task[t], new) THEN nops - 1 ELSE nops
  /\ mem' = NewsTriggered(mem, task[t], now)
  /\ probe' = NewsSeen(probe, task[t], task'[t], now)
  /\ UNCHANGED <<db, disk, lock, now, utc_offset, loops>>

(* the activity of the members is not followed: the row found is any of   *)
(* ActivityRows                                                           *)
Read(t) == ReadAs(t, ActivityRows)

(* the activity found is the one the ledger records *)
ReadRecorded(t) ==
  ReadAs(t, IF ReadsActivity(task[t])
            THEN {Found(db, Head(task[t].todo), now)} ELSE {Quiet})

(* the statements of q issued in order on ledger d *)
RECURSIVE ApplyAll(_, _)
ApplyAll(d, q) ==
  IF q = <<>> THEN d
  ELSE IF Head(q) = CommitStmt THEN ApplyAll(d, Tail(q))
  ELSE ApplyAll(Apply(d, Head(q)), Tail(q))

(* ---- observation of a buy and the sell that follows it ---- *)
NoProbe == [kind |-> "off"]
Watching == [kind |-> "watch"]

(* the trade a lock section makes, if it makes one *)
TradeOf(tk) ==
  CASE tk.stage = "execute_buy" ->
         [side |-> "buy", holder |-> tk.who, stock |-> tk.stock,
          shares |-> tk.shares]
    [] tk.stage = "execute_sell" ->
         [side |-> "sell", holder |-> tk.who, stock |-> tk.stock,
          shares |-> tk.shares]
    [] tk.stage = "order_buy" ->
         [side |-> "buy", holder |-> Head(tk.todo).user_id,
          stock |-> Head(tk.todo).stock_id, shares |-> Head(tk.todo).shares]
    [] tk.stage = "order_sell" ->
         [side |-> "sell", holder |-> Head(tk.todo).user_id,
          stock |-> Head(tk.todo).stock_id, shares |-> Head(tk.todo).shares]
    [] tk.stage = "execute_split" ->
         [side |-> "split", holder |-> 0, stock |-> tk.stock, shares |-> 0]
    [] OTHER -> [side |-> "none", holder |-> 0, stock |-> 0, shares |-> 0]

(* what the observer notes when task tk's section turns ledger before     *)
(* into ledger after: it may pick any successful buy, then follows that   *)
(* security to the sale of the same number of shares by the same holder,  *)
(* noting a split on the way and giving up on any other trade             *)
RoundTrip(p, tk, section, before, after) ==
  LET tr == TradeOf(tk)
  IN  IF section.q = <<>> \/ tr.side = "none" THEN {p}
      ELSE IF p.kind = "watch" /\ tr.side = "buy"
      THEN {p, [kind |-> "bought", holder |-> tr.holder, stock |-> tr.stock,
                shares |-> tr.shares,
                avail_before |-> get_available_shares(before, tr.stock),
                prior |-> get_holding(before, tr.holder, tr.stock) # <<>>,
                split |-> FALSE]}
      ELSE IF p.kind = "bought" /\ tr.stock = p.stock
      THEN IF tr.side = "split" THEN {[p EXCEPT !.split = TRUE]}
           ELSE IF tr.side = "sell" /\ tr.holder = p.holder
                   /\ tr.shares = p.shares
           THEN {[kind |-> "sold", shares |-> p.shares, prior |-> p.prior,
                  split |-> p.split, avail_before |-> p.avail_before,
                  avail_after |-> get_available_shares(after, p.stock),
                  row_after |-> get_holding(after, p.holder, p.stock) # <<>>]}
           ELSE {[kind |-> "void"]}
      ELSE {p}

(* ---- observation of a short and the cover that follows it ---- *)
WatchingShort == [kind |-> "watch_short"]

(* the wallet and the short positions a holder has on ledger d *)
ShortState(d, u) ==
  [wallet |-> get_wallet(d, u),
   shorts |-> {id \in DOMAIN d.short_positions :
                 d.short_positions[id].holder_id = u}]

(* what the observer notes of task tk's section: it may pick any short    *)
(* that is opened, then follows the holder's wallet to the cover of all   *)
(* those shares at the entry price, giving up when anything else has      *)
(* touched that wallet or the holder's positions                          *)
ShortTrip(p, tk, section, before, after) ==
  IF section.q = <<>> THEN {p}
  ELSE IF p.kind = "watch_short" /\ tk.stage = "open_short"
  THEN {p, [kind |-> "opened", holder |-> tk.who, stock |-> tk.stock,
            shares |-> tk.shares, price |-> tk.price,
            collateral |-> tk.collateral,
            balance_before |-> get_wallet(before, tk.who)[1].balance,
            id |-> before.next_id]}
  ELSE IF p.kind = "opened"
  THEN IF tk.stage = "close_short" /\ tk.who = p.holder
          /\ tk.position.id = p.id /\ tk.shares = p.shares
          /\ tk.price = p.price
       THEN {[kind |-> "covered", collateral |-> p.collateral,
              returned |-> CollateralReturn(tk.position, tk.shares),
              balance_before |-> p.balance_before,
              balance_after |-> get_wallet(after, p.holder)[1].balance,
              position_after |-> p.id \in DOMAIN after.short_positions]}
       ELSE IF ShortState(before, p.holder) # ShortState(after, p.holder)
       THEN {[kind |-> "void"]}
       ELSE {p}
  ELSE {p}

(* the observer at work on a lock section *)
(* a member who has opted out, and a member registered as a security that *)
(* has not opted out and whose activity therefore counts                  *)
HasOptedOut(d, user_id) ==
  get_user(d, user_id) # <<>> /\ get_user(d, user_id)[1].opted_out
TrackedSecurity(d, user_id) ==
  /\ get_user(d, user_id) # <<>> /\ ~get_user(d, user_id)[1].opted_out
  /\ get_stock(d, user_id) # <<>>

(* the observer of opt-outs: the members seen opted out so far, which    *)
(* outlives the users row that remove_user_completely deletes             *)
OptedOutSoFar(d) ==
  [kind |-> "optouts", who |-> {u \in Users : HasOptedOut(d, u)}]
OptOuts(p, after) ==
  {[p EXCEPT !.who = @ \cup {u \in Users : HasOptedOut(after, u)}]}

(* the observer of one short position's collateral: what the cover and   *)
(* liquidation blocks of that position have credited so far               *)
RECURSIVE Credits(_)
Credits(q) ==
  IF q = <<>> THEN 0
  ELSE (IF Head(q).k = "bal" /\ Head(q).delta > 0 THEN Head(q).delta ELSE 0)
         + Credits(Tail(q))

CollateralOf(position) ==
  [kind |-> "collateral", id |-> position.id,
   withdrawn |-> position.collateral, paid |-> 0]

CollateralPaid(p, tk, section) ==
  LET position == IF tk.stage = "close_short" THEN tk.position
                  ELSE Head(tk.todo)
  IN  IF tk.stage \in {"close_short", "liquidate"} /\ position.id = p.id
      THEN {[p EXCEPT !.paid = @ + Credits(section.q)]}
      ELSE {p}

(* the observer of reactions: how often record_activity has counted a     *)
(* reaction of each reactor for each target since the sets were cleared   *)
CountingReactors == [kind |-> "reactors", counted |-> NoRows]
TimesCounted(p, target, reactor) ==
  IF <<target, reactor>> \in DOMAIN p.counted
  THEN p.counted[<<target, reactor>>] ELSE 0
ReactionCounted(p, tk, section) ==
  IF tk.op = "engage" /\ tk.stage = "record_activity" /\ tk.reactor # 0
     /\ section.q # <<>>
  THEN {[p EXCEPT !.counted =
           Put(@, <<tk.who, tk.reactor>>,
               TimesCounted(p, tk.who, tk.reactor) + 1)]}
  ELSE {p}

Observe(p, tk, section, before, after) ==
  IF p.kind = "optouts"
  THEN OptOuts(p, after)
  ELSE IF p.kind = "reactors"
  THEN ReactionCounted(p, tk, section)
  ELSE IF p.kind = "collateral"
  THEN CollateralPaid(p, tk, section)
  ELSE IF p.kind \in {"watch_short", "opened", "covered"}
  THEN ShortTrip(p, tk, section, before, after)
  ELSE RoundTrip(p, tk, section, before, after)

(* ------------------------------ scheduler ----------------------------- *)
(* A whole `async with db._lock` block in one step: the blocks exclude    *)
(* each other, so between two of them the ledger is the persisted one.    *)
Transact(t) ==
  /\ task[t].pc = "wait"
  /\ lock = 0
  /\ LET section == Section(db, task[t], now)
         tk == IF section.q = <<>> THEN task[t]
               ELSE [task[t] EXCEPT !.did = TRUE]
         new == After(tk)
     IN  /\ db' = ApplyAll(db, section.q)
         /\ disk' = IF section.q = <<>> THEN disk ELSE db'
         /\ task' = [task EXCEPT ![t] = new]
         /\ nops' = IF Returned(tk, new) THEN nops - 1 ELSE nops
         /\ probe' \in Observe(probe, task[t], section, db, db')
  /\ UNCHANGED <<lock, now, utc_offset, loops, mem>>

(* The same block statement by statement.  `async with db._lock`: the     *)
(* lock is taken and the reads the block makes before its first write are *)
(* made; a block that returns before writing leaves the lock at once      *)
Acquire(t) ==
  /\ task[t].pc = "wait"
  /\ lock = 0
  /\ LET section == Section(db, task[t], now)
         new == After(task[t])
     IN  IF section.q = <<>>
         THEN /\ task' = [task EXCEPT ![t] = new]
              /\ nops' = IF Returned(task[t], new) THEN nops - 1 ELSE nops
              /\ UNCHANGED lock
         ELSE /\ task' = [task EXCEPT ![t] =
                            [op |-> task[t].op, pc |-> "run",
                             stage |-> task[t].stage, did |-> TRUE,
                             q |-> section.q,
                             after |-> After([task[t] EXCEPT !.did = TRUE])]]
              /\ lock' = t
              /\ UNCHANGED nops
  /\ UNCHANGED <<db, disk, now, probe, utc_offset, loops, mem>>

(* one `await self.conn.execute(...)` under the lock *)
Exec(t) ==
  /\ lock = t
  /\ task[t].pc = "run"
  /\ Head(task[t].q) # CommitStmt
  /\ db' = Apply(db, Head(task[t].q))
  /\ task' = [task EXCEPT ![t].q = Tail(@)]
  /\ UNCHANGED <<disk, lock, now, nops, probe, utc_offset, loops, mem>>

(* `await self.conn.commit()` and the end of the block: everything        *)
(* written on the connection so far is persisted                          *)
Commit(t) ==
  /\ lock = t
  /\ task[t].pc = "run"
  /\ Head(task[t].q) = CommitStmt
  /\ disk' = db
  /\ lock' = 0
  /\ task' = [task EXCEPT ![t] = task[t].after]
  /\ UNCHANGED <<db, now, nops, probe, utc_offset, loops, mem>>

(* _recalculate_fund_shares after its SELECT: an UPDATE and a commit()    *)
(* made without the lock, which persist whatever any coroutine has        *)
(* written on the connection so far                                       *)
recalculate_fund_shares(t) ==
  /\ task[t].pc = "free"
  /\ db' = Apply(db, UpdateSharePct(task[t].fund, task[t].total))
  /\ disk' = db'
  /\ task' = [task EXCEPT ![t] = Idle]
  /\ UNCHANGED <<lock, now, nops, probe, utc_offset, loops, mem>>

(* a statement under the lock raises: `async with` releases the lock and  *)
(* the exception leaves the handler; no handler of the program calls      *)
(* rollback(), so what was written stays on the connection.  A job whose  *)
(* body is not a try block lets the exception out of its tick, and a      *)
(* tasks.loop that an exception leaves ends for good.                     *)
Raise(t) ==
  /\ lock = t
  /\ task[t].pc = "run"
  /\ lock' = 0
  /\ task' = [task EXCEPT ![t] = Idle]
  /\ loops' = IF task[t].op \in Caught THEN loops ELSE loops \ {task[t].op}
  /\ UNCHANGED <<db, disk, now, nops, probe, utc_offset, mem>>

(* what Trading.show_portfolio is answered: get_portfolio, get_wallet *)
get_portfolio(d, holder_id) ==
  { [stock_id |-> k[2], shares |-> d.portfolios[k].shares] :
      k \in {x \in DOMAIN d.portfolios :
               x[1] = holder_id /\ d.portfolios[x].shares > 0} }

Visible(d, u) == [holdings |-> get_portfolio(d, u), wallet |-> get_wallet(d, u)]

(* Trading.show_portfolio: two reads without the lock; the reader keeps   *)
(* what it was answered, next to the persisted rows of that moment        *)
show_portfolio(u) ==
  /\ probe' = [kind |-> "seen", user |-> u, seen |-> Visible(db, u),
               persisted |-> Visible(disk, u)]
  /\ UNCHANGED <<db, disk, lock, task, now, nops, utc_offset, loops, mem>>

(* an hour passes *)
Tick ==
  /\ now < MaxTime
  /\ now' = now + 1
  /\ UNCHANGED <<db, disk, lock, task, nops, probe, utc_offset, loops, mem>>

(* the handlers that have returned are forgotten once nothing runs: the  *)
(* bound MaxOps then applies to each stretch between two idle moments     *)
Forget ==
  /\ nops > 0
  /\ \A t \in Tasks : task[t] = Idle
  /\ nops' = 0
  /\ UNCHANGED <<db, disk, lock, task, now, probe, utc_offset, loops, mem>>

(* ------------------------------ commands ------------------------------ *)
Join == \E u \in Users : on_member_join(u)
Buy == \E a \in Users, s \in Users, n \in BuyAmounts : buy_stock(a, s, n)
Sell == \E a \in Users, s \in Users, n \in SellAmounts : sell_stock(a, s, n)
Short == \E a \in Users, s \in Users, n \in ShortAmounts : open_short(a, s, n)
Cover == \E a \in Users, s \in Users, n \in CoverAmounts : close_short(a, s, n)
Split == \E s \in Users, r \in SplitRatios : force_split(s, r)
OptOut == \E a \in Users : opt_out(a)
Engage ==
  \E u \in Users, column \in Columns \ {"reactions_received"} :
    record_event(u, column, 1)
React == \E target \in Users, reactor \in Users : on_reaction_add(target, reactor)
LimitOrder ==
  \E a \in Users, s \in Users, n \in OrderAmounts,
     ty \in {"buy_low", "sell_high"} :
    limit_order(a, s, n, Money(BASE_PRICE), ty)
FundCreate == \E a \in Users, name \in FundNames : fund_create(a, name)
FundDeposit == \E a \in Users, n \in DepositAmounts : fund_deposit(a, Money(n))
Unlocked == \E t \in Tasks : recalculate_fund_shares(t)
PriceUpdate == price_update
DailyReset == daily_reset_task
DividendPayout == dividend_payout
MarketEvent == market_event_roller
MarginCheck == margin_check
SplitCheck == split_checker
ShowPortfolio == \E u \in Users : show_portfolio(u)

Blocks == \E t \in Tasks : Read(t) \/ Transact(t)
Tracked == \E t \in Tasks : ReadRecorded(t) \/ Transact(t)
Statements == \E t \in Tasks : Read(t) \/ Acquire(t) \/ Exec(t) \/ Commit(t)
Failure == \E t \in Tasks : Raise(t)

(* the ledger once every member has been registered *)
RECURSIVE RegisterAll(_, _)
RegisterAll(d, n) ==
  IF n = 0 THEN d
  ELSE RegisterAll(ApplyAll(d, get_or_create_user(d, n).q), n - 1)

RegisteredLedger == RegisterAll(EmptyLedger, NumUsers)

(* the program starts on a host whose local time is one of offsets hours  *)
(* ahead of UTC                                                           *)
StartOn(ledgers, p, offsets) ==
  /\ db \in ledgers
  /\ disk = db
  /\ lock = 0
  /\ task = [t \in Tasks |-> Idle]
  /\ now = 0
  /\ nops = 0
  /\ probe = p
  /\ utc_offset \in offsets
  /\ loops = Jobs
  /\ mem = NoMemory

(* a host that keeps UTC *)
Start(ledgers, p) == StartOn(ledgers, p, {0})

(* trading, splits, opt-out and the price job *)
Init == Start(PriorLedgers, NoProbe)
Next ==
  \/ Join \/ Buy \/ Sell \/ Split \/ OptOut \/ LimitOrder \/ PriceUpdate
  \/ Blocks \/ Tick
Spec == Init /\ [][Next]_vars

(* short selling, with the jobs that move prices and liquidate *)
InitShort == Start({RegisteredLedger}, NoProbe)
NextShort ==
  \/ Short \/ Cover \/ Buy \/ Split \/ PriceUpdate \/ MarginCheck
  \/ Blocks \/ Tick
SpecShort == InitShort /\ [][NextShort]_vars

(* a buy followed by a sell, watched *)
InitRoundTrip == Start({EmptyLedger}, Watching)
NextRoundTrip == Join \/ Buy \/ Sell \/ Split \/ Blocks \/ Tick
SpecRoundTrip == InitRoundTrip /\ [][NextRoundTrip]_vars

(* trades statement by statement, with a reader *)
InitStmt == Start({RegisteredLedger}, NoProbe)
NextStmt == Buy \/ Sell \/ ShowPortfolio \/ Statements \/ Tick
SpecStmt == InitStmt /\ [][NextStmt]_vars

(* trades statement by statement, where a statement may raise *)
NextFault == Buy \/ Sell \/ Statements \/ Failure \/ Tick
SpecFault == InitStmt /\ [][NextFault]_vars

(* a short followed by its cover, watched *)
InitShortTrip == Start({RegisteredLedger}, WatchingShort)
NextShortTrip ==
  \/ Short \/ Cover \/ Buy \/ PriceUpdate \/ MarginCheck \/ Blocks \/ Tick
SpecShortTrip == InitShortTrip /\ [][NextShortTrip]_vars

(* the ledger after holder 2 has shorted 10 shares of security 1 at the   *)
(* starting price and a price_update has found 45 mentions of member 1     *)
ShortedLedger ==
  LET price == get_stock(RegisteredLedger, 1)[1].current_price
      opened == ApplyAll(RegisteredLedger,
                         open_short_section(2, 1, 10, price,
                                            RequiredCollateral(10 * price),
                                            0).q)
      risen == calculate_price(get_stock(opened, 1)[1].base_price,
                               Metrics(0, 0, 0, 0, 45), 0, DemandData, 0)
  IN  ApplyAll(opened, update_stock_price(opened, 1, risen).q)

(* the margin sweep, with covers and price moves around it *)
InitSweep == Start({ShortedLedger}, NoProbe)
NextSweep == Short \/ Cover \/ PriceUpdate \/ MarginCheck \/ Blocks \/ Tick
SpecSweep == InitSweep /\ [][NextSweep]_vars

(* the ledger after holder 2 has bought 50 shares of security 1 at the    *)
(* starting price and a price_update has found 9950 mentions of member 1: *)
(* the price is $10050                                                    *)
HighLedger ==
  LET price == get_stock(RegisteredLedger, 1)[1].current_price
      bought == ApplyAll(RegisteredLedger,
                         execute_buy(RegisteredLedger, 2, 1, 50, price, 0).q)
      risen == calculate_price(get_stock(bought, 1)[1].base_price,
                               Metrics(0, 0, 0, 0, 9950), 0, DemandData, 0)
  IN  ApplyAll(bought, update_stock_price(bought, 1, risen).q)

(* splits, by the sweep and by command, with price moves around them *)
InitSplit == Start({HighLedger}, NoProbe)
NextSplit == SplitCheck \/ Split \/ PriceUpdate \/ Blocks \/ Tick
SpecSplit == InitSplit /\ [][NextSplit]_vars

(* the pricing engine, called with every input of Quotes *)
InitPricing == \E p \in Quotes : Start({EmptyLedger}, p)
NextPricing == quote
SpecPricing == InitPricing /\ [][NextPricing]_vars

(* the hours by which the host's local time may be ahead of UTC *)
UtcOffsets == {0, 1}

(* buys and sells, by command and by limit order, on hosts in different   *)
(* time zones                                                             *)
InitLock == StartOn({RegisteredLedger}, NoProbe, UtcOffsets)
NextLock == Buy \/ Sell \/ LimitOrder \/ PriceUpdate \/ Blocks \/ Tick
SpecLock == InitLock /\ [][NextLock]_vars

(* ------------------------------- claims ------------------------------- *)
RECURSIVE SumShares(_, _)
SumShares(d, keys) ==
  IF keys = {} THEN 0
  ELSE LET k == CHOOSE x \in keys : TRUE
       IN  d.portfolios[k].shares + SumShares(d, keys \ {k})

(* the shares of security s held in portfolios *)
HeldShares(d, s) == SumShares(d, {k \in DOMAIN d.portfolios : k[2] = s})

(* C1 -- share conservation: in every persisted state, for every          *)
(* security S, shares_available(S) plus the sum of the shares of all      *)
(* holdings of S equals total_shares(S).  The purge of a holder and two   *)
(* overlapping splits both break it.                                      *)
ShareConservation ==
  \A s \in DOMAIN disk.users :
    disk.users[s].shares_available + HeldShares(disk, s)
      = disk.users[s].total_shares

(* C2 -- atomic visibility: a read made without the lock is answered      *)
(* with the rows as they are persisted, before or after a whole trade,    *)
(* never with part of a trade.  The reader shares the writer's            *)
(* connection and is answered with its pending writes.                    *)
ReadSeesWholeTrades ==
  probe.kind = "seen" => probe.seen = probe.persisted

(* what a handler read before `async with db._lock` still agrees with the *)
(* ledger                                                                 *)
StillTrue(tk) ==
  CASE tk.stage = "open_short" ->
         /\ get_stock(db, tk.stock) # <<>>
         /\ get_stock(db, tk.stock)[1].current_price = tk.price
         /\ get_wallet(db, tk.who) # <<>>
         /\ get_wallet(db, tk.who)[1].balance >= tk.collateral
    [] tk.stage = "close_short" ->
         /\ tk.position.id \in DOMAIN db.short_positions
         /\ db.short_positions[tk.position.id] = tk.position
         /\ get_stock(db, tk.stock) # <<>>
         /\ get_stock(db, tk.stock)[1].current_price = tk.price
    [] tk.stage = "execute_split" ->
         /\ get_stock(db, tk.stock) # <<>>
         /\ get_stock(db, tk.stock)[1].current_price = tk.price
         /\ get_user(db, tk.stock) # <<>>
         /\ get_user(db, tk.stock)[1].total_shares = tk.old_shares
    [] OTHER -> TRUE

(* C3 -- lock discipline: every mutating operation reads the state it     *)
(* depends on inside the lock section that writes, so a handler about to  *)
(* enter its section holds no value another operation has since changed.  *)
(* open_short, close_short and _execute_split read before the lock.       *)
ReadsUnderLock ==
  \A t \in Tasks : task[t].pc = "wait" => StillTrue(task[t])

(* C4 -- rollback on error: when a statement of a mutating operation      *)
(* fails, the writes it has issued are undone, so once the lock is free   *)
(* the connection holds nothing but the persisted state.  There is no     *)
(* rollback: the writes stay and the next commit persists them.           *)
FailureLeavesNothing ==
  lock = 0 => db = disk

(* C5 -- ownership cap: in every persisted state no holder owns more than *)
(* floor(total_shares * 0.10) shares of any security.  Two overlapping    *)
(* splits multiply the holdings twice and total_shares once.              *)
OwnershipCap ==
  \A k \in DOMAIN disk.portfolios :
    k[2] \in DOMAIN disk.users =>
      disk.portfolios[k].shares
        <= (disk.users[k[2]].total_shares * OWNERSHIP_LIMIT_PCT) \div 100


(* the step in which task t leaves the lock section it was waiting for *)
Leaves(t, side) ==
  /\ task[t].pc = "wait"
  /\ TradeOf(task[t]).side = side
  /\ task'[t] # task[t]

SharesHeld(d, h, s) ==
  IF get_holding(d, h, s) = <<>> THEN 0 ELSE get_holding(d, h, s)[1].shares

(* the cap of the claims: floor(total_shares * 0.10) *)
CapOf(d, s) == (d.users[s].total_shares * 10) \div 100

(* C6 -- a buy that would raise the holder's shares of a security above   *)
(* floor(total_shares * 0.10) is refused and leaves the whole ledger as   *)
(* it was; a buy up to the cap, funded and within the shares on offer,    *)
(* goes through and takes its shares from shares_available (of 1000       *)
(* shares, all on offer, 150 are refused and 100 leave 900).              *)
BuyCapEnforced ==
  [][\A t \in Tasks :
       Leaves(t, "buy") /\ TradeOf(task[t]).stock \in DOMAIN db.users =>
         LET tr == TradeOf(task[t])
             cur == SharesHeld(db, tr.holder, tr.stock)
             wallet == get_wallet(db, tr.holder)
         IN  IF cur + tr.shares > CapOf(db, tr.stock)
             THEN db' = db /\ disk' = disk
             ELSE ( /\ wallet # <<>>
                    /\ wallet[1].balance >= tr.shares * task[t].price
                    /\ get_available_shares(db, tr.stock) >= tr.shares )
                  => /\ get_available_shares(db', tr.stock)
                          = get_available_shares(db, tr.stock) - tr.shares
                     /\ SharesHeld(db', tr.holder, tr.stock) = cur + tr.shares
                     /\ disk' = db'
  ]_vars

(* C6 witness: a buy of 150 of the 1000 shares of a security, all on      *)
(* offer and the buyer able to pay, is at the cap check, while a buy of   *)
(* 100 of another security has left 900 of its 1000 on offer              *)
BuyAtTheCap ==
  /\ \E t \in Tasks :
       LET tr == TradeOf(task[t])
       IN  /\ task[t].pc = "wait"
           /\ tr.side = "buy"
           /\ tr.shares = 150
           /\ tr.stock \in DOMAIN db.users
           /\ db.users[tr.stock].total_shares = 1000
           /\ db.users[tr.stock].shares_available = 1000
           /\ get_wallet(db, tr.holder) # <<>>
           /\ get_wallet(db, tr.holder)[1].balance >= 150 * task[t].price
  /\ \E k \in DOMAIN db.portfolios :
       /\ db.portfolios[k].shares = 100
       /\ db.users[k[2]].total_shares = 1000
       /\ db.users[k[2]].shares_available = 900

NoEmptyHolding ==
  /\ \A k \in DOMAIN db.portfolios : db.portfolios[k].shares > 0
  /\ \A k \in DOMAIN disk.portfolios : disk.portfolios[k].shares > 0

(* C8 witness: shares of a security were bought and all sold again, and   *)
(* nobody holds it now                                                    *)
HoldingSoldOut ==
  /\ \E s \in DOMAIN disk.stocks :
       /\ disk.stocks[s].volume_today >= 200
       /\ HeldShares(disk, s) = 0
       /\ \A k \in DOMAIN disk.portfolios : k[2] # s
  /\ disk.transactions >= 2

(* C9 -- every short position has collateral >= 0 and                     *)
(* liquidation_price > margin_call_price > entry_price, on the connection *)
(* and persisted, after opens, partial covers, price moves and splits.    *)
ShortThresholds ==
  \A d \in {db, disk} : \A id \in DOMAIN d.short_positions :
    LET position == d.short_positions[id]
    IN  /\ position.collateral >= 0
        /\ position.liquidation_price > position.margin_call_price
        /\ position.margin_call_price > position.entry_price

(* C9 witness: a position that was covered in part, after the price rose  *)
ShortPartlyCovered ==
  \E id \in DOMAIN disk.short_positions :
    /\ disk.short_positions[id].shares = 6
    /\ get_stock(disk, disk.short_positions[id].stock_id)[1].current_price
         > disk.short_positions[id].entry_price

(* C10 -- open_short for n shares at price p goes through only if the     *)
(* holder's balance is at least 1.5*n*p; it withdraws 1.5*n*p, credits    *)
(* n*p and creates a position with entry_price p, collateral 1.5*n*p,     *)
(* margin_call_price 1.2*p and liquidation_price 1.4*p.  The balance is   *)
(* checked before the lock is taken and may have been spent since.        *)
ShortOpensFunded ==
  [][\A t \in Tasks :
       ( /\ task[t].pc = "wait"
         /\ task[t].stage = "open_short"
         /\ task'[t] # task[t] ) =>
         LET tk == task[t]
             np == tk.shares * tk.price
             balance == get_wallet(db, tk.who)[1].balance
             id == db.next_id
         IN  /\ balance >= (np * 3) \div 2
             /\ get_wallet(db', tk.who)[1].balance
                  = balance - (np * 3) \div 2 + np
             /\ id \in DOMAIN db'.short_positions
             /\ db'.short_positions[id].holder_id = tk.who
             /\ db'.short_positions[id].shares = tk.shares
             /\ db'.short_positions[id].entry_price = tk.price
             /\ db'.short_positions[id].collateral = (np * 3) \div 2
             /\ db'.short_positions[id].margin_call_price
                  = (tk.price * 12) \div 10
             /\ db'.short_positions[id].liquidation_price
                  = (tk.price * 14) \div 10
  ]_vars


SweepLiquidates ==
  [][\A t \in Tasks :
       ( /\ task[t].pc = "wait"
         /\ task[t].stage = "liquidate"
         /\ task'[t] # task[t] ) =>
         LET id == Head(task[t].todo).id
             holder == Head(task[t].todo).holder_id
         IN  /\ id \in DOMAIN db.short_positions
             /\ LET position == db.short_positions[id]
                    current_price ==
                      get_stock(db, position.stock_id)[1].current_price
                    cover_cost == current_price * position.shares
                IN  /\ current_price >= position.liquidation_price
                    /\ id \notin DOMAIN db'.short_positions
                    /\ get_wallet(db', holder)[1].balance
                         = get_wallet(db, holder)[1].balance
                             + Max(0, position.collateral - cover_cost)
                    /\ \A other \in DOMAIN db.short_positions \ {id} :
                         /\ other \in DOMAIN db'.short_positions
                         /\ db'.short_positions[other]
                              = db.short_positions[other]
  ]_vars


(* C13 -- a 2:1 split of security S halves S's current price and base     *)
(* price, doubles total_shares(S) and shares_available(S), and doubles    *)
(* the shares and halves the avg_buy_price of every holding of S; the     *)
(* split sweep splits no security whose price is below 10,000 (price      *)
(* 10050, total 1000 becomes price 5025, total 2000).  _execute_split     *)
(* writes the price and total_shares it read before it took the lock,     *)
(* and the sweep splits what it selected earlier.                         *)
SplitAsStated ==
  [][\A t \in Tasks :
       ( /\ task[t].pc = "wait"
         /\ task[t].stage = "execute_split"
         /\ task[t].ratio = 2
         /\ task'[t] # task[t]
         /\ task[t].stock \in DOMAIN db.stocks \cap DOMAIN db.users ) =>
         LET s == task[t].stock
         IN  /\ db'.stocks[s].current_price = db.stocks[s].current_price \div 2
             /\ db'.stocks[s].base_price = db.stocks[s].base_price \div 2
             /\ db'.users[s].total_shares = 2 * db.users[s].total_shares
             /\ db'.users[s].shares_available
                  = 2 * db.users[s].shares_available
             /\ \A k \in DOMAIN db.portfolios :
                  k[2] = s =>
                    /\ db'.portfolios[k].shares = 2 * db.portfolios[k].shares
                    /\ db'.portfolios[k].avg_buy_price
                         = db.portfolios[k].avg_buy_price \div 2
             /\ task[t].op = "split_checker" =>
                  db.stocks[s].current_price >= Money(SPLIT_THRESHOLD)
  ]_vars


(* C14 -- pricing monotonicity: for equal base price, streak, demand and  *)
(* inactivity days, when metrics A are at least metrics B in every        *)
(* engagement metric and greater in one, calculate_price(A) is at least   *)
(* calculate_price(B).                                                    *)
PricingMonotone ==
  ( /\ probe.kind = "priced"
    /\ Dominates(probe.a, probe.b)
    /\ probe.a # probe.b ) =>
    probe.price >= probe.price_b

(* the engine has priced 60 messages against 50, above the floor *)
PricedMoreMessages ==
  /\ probe.kind = "priced"
  /\ probe.a.messages = 60
  /\ probe.b.messages = 50
  /\ probe.price > probe.price_b
  /\ probe.price_b > Money(10)


StatedMultiplier(m) ==
  Max(10000,
      10000 + 50 * Min(m.messages, 50) + 25 * Max(m.messages - 50, 0)
        + 200 * m.unique_reactors + 10 * m.voice_minutes
        + 300 * m.replies_received + 100 * m.mentions_received)

(* the inputs of the claim's example: 10 messages and nothing else, base  *)
(* price 100, streak 0, neutral demand, no inactivity                     *)
StatedExample ==
  /\ probe.a = Metrics(10, 0, 0, 0, 0)
  /\ probe.base_price = Money(100)
  /\ probe.consecutive_days = 0
  /\ probe.demand = DemandData
  /\ probe.days_inactive = 0

(* C16 -- the activity multiplier is 1 + 0.005*min(messages,50)           *)
(* + 0.0025*max(messages-50,0) + 0.02*unique_reactors                     *)
(* + 0.001*voice_minutes + 0.03*replies_received                          *)
(* + 0.01*mentions_received, floored at 1.0; with base price 100, 10      *)
(* messages, no other metric, streak 0, neutral demand and no inactivity  *)
(* the price is 105.00.                                                   *)
MultiplierAsStated ==
  probe.kind = "priced" =>
    /\ probe.multiplier = StatedMultiplier(probe.a)
    /\ StatedExample => probe.price = Money(105)

(* the engine has priced the example: multiplier 1.05 *)
ExamplePriced ==
  /\ probe.kind = "priced"
  /\ StatedExample
  /\ probe.multiplier = 10500


(* C17 -- no buy of a security goes through while that security is opted  *)
(* out, and none goes through with the buyer being the security, whether  *)
(* it comes from the buy command or from a buy_low limit order that the   *)
(* sweep executes; so no user ever holds shares of their own security.    *)
NoBuyOfOwnOrOptedOut ==
  [][ /\ \A t \in Tasks :
           ( /\ Leaves(t, "buy")
             /\ SharesHeld(db', TradeOf(task[t]).holder, TradeOf(task[t]).stock)
                  > SharesHeld(db, TradeOf(task[t]).holder,
                               TradeOf(task[t]).stock) ) =>
             /\ TradeOf(task[t]).holder # TradeOf(task[t]).stock
             /\ ~is_opted_out(db, TradeOf(task[t]).stock)
      /\ \A k \in DOMAIN db'.portfolios : k[1] # k[2]
  ]_vars


(* C18 -- a sell, by command or by a sell_high limit order, fails and     *)
(* changes nothing when the seller owns fewer shares than it asks for or  *)
(* when the holding's lock has not expired, that is within 1 hour of the  *)
(* last buy into that holding.  The lock is written in UTC and compared   *)
(* with the host's local time.                                            *)
SellLockHolds ==
  [][\A t \in Tasks :
       Leaves(t, "sell") =>
         LET tr == TradeOf(task[t])
             holding == get_holding(db, tr.holder, tr.stock)
         IN  ( \/ holding = <<>>
               \/ holding[1].shares < tr.shares
               \/ now < holding[1].locked_until ) =>
               db' = db /\ disk' = disk
  ]_vars


(* limit orders, with the price job that sweeps them and the splits *)
InitOrders == Start({RegisteredLedger}, NoProbe)
NextOrders == LimitOrder \/ Split \/ PriceUpdate \/ Blocks \/ Tick
SpecOrders == InitOrders /\ [][NextOrders]_vars

(* whether the price of its security now meets the condition of an order *)
ConditionMet(d, order) ==
  /\ get_stock(d, order.stock_id) # <<>>
  /\ \/ /\ order.order_type = "buy_low"
        /\ get_stock(d, order.stock_id)[1].current_price <= order.target_price
     \/ /\ order.order_type = "sell_high"
        /\ get_stock(d, order.stock_id)[1].current_price >= order.target_price

(* C19 -- the limit-order sweep: an order whose condition is not met is   *)
(* neither executed nor deleted; an order whose condition is met is       *)
(* executed through the buy or sell operation at the current price and    *)
(* then deleted, whether the trade went through or not; an order is       *)
(* executed at most once, so what is executed is still in the table.      *)
(* The sweep tests the condition on the price it reads before execute_buy *)
(* or execute_sell takes the lock.                                        *)
OrderSweepAsStated ==
  [][\A t \in Tasks :
       ( /\ task[t].op = "price_update"
         /\ task'[t] # task[t] ) =>
         /\ ( task[t].stage = "orders" /\ task[t].todo # <<>>
              /\ ~ConditionMet(db, Head(task[t].todo)) ) =>
              /\ db' = db
              /\ task'[t].stage = "orders"
              /\ task'[t].todo = Tail(task[t].todo)
         /\ ( task[t].stage = "orders" /\ task[t].todo # <<>>
              /\ ConditionMet(db, Head(task[t].todo)) ) =>
              /\ task'[t].stage
                   = IF Head(task[t].todo).order_type = "buy_low"
                     THEN "order_buy" ELSE "order_sell"
              /\ task'[t].todo = task[t].todo
         /\ task[t].stage \in {"order_buy", "order_sell"} =>
              LET order == Head(task[t].todo)
                  price == get_stock(db, order.stock_id)[1].current_price
              IN  /\ order.id \in DOMAIN db.limit_orders
                  /\ ConditionMet(db, order)
                  /\ db' = ApplyAll(db,
                       IF order.order_type = "buy_low"
                       THEN execute_buy(db, order.user_id, order.stock_id,
                                        order.shares, price, now).q
                       ELSE execute_sell(db, order.user_id, order.stock_id,
                                         order.shares, price,
                                         datetime_now(now)).q)
                  /\ task'[t].stage = "order_delete"
                  /\ task'[t].todo = task[t].todo
         /\ task[t].stage = "order_delete" =>
              Head(task[t].todo).id \notin DOMAIN db'.limit_orders
  ]_vars


(* opt-out, the purge by the price job and registration *)
InitPurge == Start({DecayedLedger}, OptedOutSoFar(DecayedLedger))
NextPurge == Join \/ OptOut \/ PriceUpdate \/ Blocks \/ Tick
SpecPurge == InitPurge /\ [][NextPurge]_vars

(* C20 -- opt-out is irrevocable: once a member has opted out, in no      *)
(* later state is that member registered as a security that has not       *)
(* opted out, not even after the purge of the member and a later event    *)
(* or command that registers its author.                                  *)
OptOutIrrevocable ==
  probe.kind = "optouts" =>
    \A u \in probe.who : ~TrackedSecurity(db, u)


(* the ledger after member 1 has registered and founded the fund "alpha" *)
FundedLedger ==
  LET joined == ApplyAll(EmptyLedger, get_or_create_user(EmptyLedger, 1).q)
  IN  ApplyAll(joined, fund_create_section(joined, 1, "alpha").q)

(* registration statement by statement, next to the deposits of a fund *)
InitUnity == Start({FundedLedger}, NoProbe)
NextUnity ==
  \/ Join \/ FundCreate \/ FundDeposit \/ Statements \/ Unlocked \/ Tick
SpecUnity == InitUnity /\ [][NextUnity]_vars

(* C21 -- lifecycle unity: in every persisted state a user record exists  *)
(* if and only if the wallet and the security of that user exist, since   *)
(* registration creates them in one atomic step and the purge removes     *)
(* them together.  A commit() made without the lock persists the first    *)
(* half of a registration.                                                *)
LifecycleUnity ==
  \A u \in Users :
    u \in DOMAIN disk.users
      <=> (u \in DOMAIN disk.wallets /\ u \in DOMAIN disk.stocks)


(* the periodic jobs statement by statement, where a statement may raise *)
InitJobs == Start({RegisteredLedger}, NoProbe)
NextJobs == PriceUpdate \/ DailyReset \/ Statements \/ Failure \/ Tick
SpecJobs == InitJobs /\ [][NextJobs]_vars

(* C22 -- a failure raised inside one tick of a periodic job is caught    *)
(* within that tick: whatever has failed, every job is still scheduled    *)
(* and runs again at its next interval.  daily_reset_task and             *)
(* voice_tracker have no try block, and their loop ends with the first    *)
(* exception.                                                             *)
JobsKeepRunning == loops = Jobs


(* ---------------------- sweeps and the lock --------------------------- *)
(* the ledger after each of members 1 and 2 has bought 50 shares of the   *)
(* other at the starting price                                            *)
HeldLedger ==
  LET price == Money(BASE_PRICE)
      first == ApplyAll(RegisteredLedger,
                        execute_buy(RegisteredLedger, 1, 2, 50, price, 0).q)
  IN  ApplyAll(first, execute_buy(first, 2, 1, 50, price, 0).q)

(* the ledger after member 2 has placed an order to buy 100 shares of    *)
(* security 1 at the starting price or below                              *)
OrderedLedger ==
  ApplyAll(RegisteredLedger,
           create_limit_order(2, 1, 100, Money(BASE_PRICE), "buy_low").q)

(* the four sweeps statement by statement, with commands that wait for    *)
(* the lock                                                               *)
SweptLedgers == {HeldLedger, ShortedLedger, HighLedger, OrderedLedger}
InitYield == Start(SweptLedgers, NoProbe)
NextYield ==
  \/ OptOut \/ DividendPayout \/ MarginCheck \/ SplitCheck \/ PriceUpdate
  \/ Statements \/ Tick
SpecYield == InitYield /\ [][NextYield]_vars

Sweeps == {"dividend_payout", "margin_check", "split_checker", "price_update"}

(* the entities of a sweep whose records differ between ledgers a and b:  *)
(* the holders paid, the positions closed, the securities split or        *)
(* repriced, the orders removed                                           *)
Swept(op, a, b) ==
  CASE op = "dividend_payout" ->
         {u \in DOMAIN a.wallets \cap DOMAIN b.wallets :
            a.wallets[u].lifetime_dividends # b.wallets[u].lifetime_dividends}
    [] op = "margin_check" ->
         DOMAIN a.short_positions \ DOMAIN b.short_positions
    [] op = "split_checker" ->
         {s \in DOMAIN a.users \cap DOMAIN b.users :
            a.users[s].total_shares # b.users[s].total_shares}
    [] op = "price_update" ->
         {s \in DOMAIN a.stocks :
            s \notin DOMAIN b.stocks \/ a.stocks[s] # b.stocks[s]}
           \cup {NumUsers + id : id \in DOMAIN a.limit_orders
                                         \ DOMAIN b.limit_orders}

(* C23: every sweep over several entities (dividend sweep, margin sweep,  *)
(* split sweep, limit-order sweep) releases the lock between the          *)
(* sub-transactions of different entities: what one lock block of a sweep *)
(* persists concerns one entity only, so a command that waits can take    *)
(* the lock before the sweep has processed all its rows.                  *)
SweepsYield ==
  [][\A t \in Tasks :
       (lock = t /\ lock' = 0 /\ task[t].op \in Sweeps)
         => Cardinality(Swept(task[t].op, disk, disk')) <= 1]_vars


(* ----------------------------- the buy -------------------------------- *)
(* C24: a successful buy of n shares at price p debits the buyer exactly  *)
(* n*p, takes n from shares_available, adds n to the day's volume,        *)
(* appends one transaction, and leaves the holding with shares = old + n  *)
(* and avg_buy_price = (old*old_avg + n*p)/(old + n); the whole holding,  *)
(* shares bought earlier included, is locked until one hour from now.     *)
BuyAsStated ==
  [][\A t \in Tasks :
       Leaves(t, "buy") /\ db' # db =>
         LET tr == TradeOf(task[t])
             n == tr.shares
             p == task[t].price
             old == SharesHeld(db, tr.holder, tr.stock)
             key == <<tr.holder, tr.stock>>
         IN  /\ db'.wallets[tr.holder].balance
                  = db.wallets[tr.holder].balance - n * p
             /\ db'.users[tr.stock].shares_available
                  = db.users[tr.stock].shares_available - n
             /\ db'.stocks[tr.stock].volume_today
                  = db.stocks[tr.stock].volume_today + n
             /\ db'.transactions = db.transactions + 1
             /\ key \in DOMAIN db'.portfolios
             /\ db'.portfolios[key].shares = old + n
             /\ db'.portfolios[key].avg_buy_price
                  = IF old = 0 THEN p
                    ELSE (old * db.portfolios[key].avg_buy_price + n * p)
                           \div (old + n)
             /\ db'.portfolios[key].locked_until = now + 1
             /\ disk' = db'
  ]_vars

(* C24 witness: a holding bought at hour 0 has been added to at hour 1,   *)
(* and all of it is locked until hour 2                                   *)
BoughtTwice ==
  /\ now = 1
  /\ db.transactions = 2
  /\ \E k \in DOMAIN db.portfolios :
       /\ DOMAIN db.portfolios = {k}
       /\ db.portfolios[k].shares = 100
       /\ db.portfolios[k].locked_until = 2
       /\ db.users[k[2]].shares_available = 900
       /\ db.stocks[k[2]].volume_today = 100


(* ------------------------ the frame of a split ------------------------ *)
(* C25: a split leaves every short position as it was (shares, entry      *)
(* price, collateral, margin-call price, liquidation price), changes no   *)
(* wallet balance, and changes no record of a security other than the     *)
(* one that is split.                                                     *)
SplitFrame ==
  [][\A t \in Tasks :
       Leaves(t, "split") =>
         LET s == TradeOf(task[t]).stock
         IN  /\ db'.short_positions = db.short_positions
             /\ db'.wallets = db.wallets
             /\ db'.limit_orders = db.limit_orders
             /\ DOMAIN db'.stocks = DOMAIN db.stocks
             /\ DOMAIN db'.users = DOMAIN db.users
             /\ DOMAIN db'.portfolios = DOMAIN db.portfolios
             /\ \A u \in DOMAIN db.stocks \ {s} : db'.stocks[u] = db.stocks[u]
             /\ \A u \in DOMAIN db.users \ {s} : db'.users[u] = db.users[u]
             /\ \A k \in DOMAIN db.portfolios :
                  k[2] # s => db'.portfolios[k] = db.portfolios[k]
  ]_vars

(* C25 witness: a security has been split 2:1 to $50 while a short        *)
(* position on it, opened at $100, is open, and a holding of another      *)
(* security exists                                                        *)
SplitAroundShort ==
  /\ db.stock_splits = 1
  /\ \E id \in DOMAIN db.short_positions :
       LET sp == db.short_positions[id]
       IN  /\ sp.entry_price = Money(BASE_PRICE)
           /\ sp.stock_id \in DOMAIN db.stocks
           /\ db.stocks[sp.stock_id].current_price = Money(BASE_PRICE) \div 2
           /\ db.users[sp.stock_id].total_shares = 2 * TOTAL_SHARES
           /\ \E k \in DOMAIN db.portfolios : k[2] # sp.stock_id


(* ----------------------------- the cover ------------------------------ *)
(* the step in which task t leaves the lock block of close_short *)
Covers(t) ==
  /\ task[t].pc = "wait"
  /\ task[t].stage = "close_short"
  /\ task'[t] # task[t]

OpenPositions(d, holder, stock) ==
  {id \in DOMAIN d.short_positions :
     /\ d.short_positions[id].holder_id = holder
     /\ d.short_positions[id].stock_id = stock}

(* C26: a cover of k shares of security S changes nothing if the holder   *)
(* has no open position on S, if k exceeds the position's shares, or if   *)
(* less than one hour has passed since the position was opened; otherwise *)
(* it debits k * current_price, credits (k/shares) * collateral, and      *)
(* deletes the position (k = shares) or leaves it with shares - k shares  *)
(* and the remaining collateral.                                          *)
CoverAsStated ==
  [][\A t \in Tasks :
       Covers(t) =>
         LET holder == task[t].who
             stock == task[t].stock
             k == task[t].shares
             open == {id \in OpenPositions(db, holder, stock) :
                        /\ k <= db.short_positions[id].shares
                        /\ now >= db.short_positions[id].created_at + 1}
         IN  IF open = {} \/ stock \notin DOMAIN db.stocks
             THEN db' = db
             ELSE \E id \in open :
                    LET position == db.short_positions[id]
                        back == MulDiv(position.collateral, k, position.shares)
                    IN  /\ db'.wallets[holder].balance
                             = db.wallets[holder].balance
                                 - k * db.stocks[stock].current_price + back
                        /\ IF k = position.shares
                           THEN id \notin DOMAIN db'.short_positions
                           ELSE /\ id \in DOMAIN db'.short_positions
                                /\ db'.short_positions[id]
                                     = [position EXCEPT
                                          !.shares = position.shares - k,
                                          !.collateral = @ - back]
  ]_vars


(* ------------------- the collateral of one position ------------------- *)
(* covers and the margin sweep on the position of ShortedLedger, with    *)
(* price moves and other shorts around them                               *)
InitCollateral ==
  Start({ShortedLedger}, CollateralOf(ShortedLedger.short_positions[1]))
NextCollateral ==
  Short \/ Cover \/ PriceUpdate \/ MarginCheck \/ Blocks \/ Tick
SpecCollateral == InitCollateral /\ [][NextCollateral]_vars

(* C27: the collateral of one short position is paid back at most once in *)
(* total: under any interleaving of covers and the margin sweep on that   *)
(* position, the collateral amounts credited for it never add up to more  *)
(* than the collateral that was withdrawn when it was opened.             *)
CollateralPaidOnce ==
  probe.kind = "collateral" => probe.paid <= probe.withdrawn


(* --------------------------- the wallets ------------------------------ *)
(* the ledger after holder 2 has shorted 10 shares of security 1 at the   *)
(* starting price and a price_update has found 1100 mentions of member 1: *)
(* the price is $1200 and the margin sweep has not run yet                *)
SqueezedLedger ==
  LET price == get_stock(RegisteredLedger, 1)[1].current_price
      opened == ApplyAll(RegisteredLedger,
                         open_short_section(2, 1, 10, price,
                                            RequiredCollateral(10 * price),
                                            0).q)
      risen == calculate_price(get_stock(opened, 1)[1].base_price,
                               Metrics(0, 0, 0, 0, 1100), 0, DemandData, 0)
  IN  ApplyAll(opened, update_stock_price(opened, 1, risen).q)

(* every command and sweep that moves money, block by block *)
InitWallets == Start({FundedLedger, SqueezedLedger}, NoProbe)
NextWallets ==
  \/ Buy \/ Sell \/ Short \/ Cover \/ MarginCheck \/ DividendPayout
  \/ FundCreate \/ FundDeposit \/ Blocks \/ Unlocked \/ Tick
SpecWallets == InitWallets /\ [][NextWallets]_vars

(* C28: in every reachable state every wallet balance is >= 0: no         *)
(* sequence or interleaving of buys, sells, shorts, covers, liquidations, *)
(* fund creations, fund deposits and daily bonuses drives a balance       *)
(* negative.                                                              *)
BalancesNonNegative ==
  \A u \in DOMAIN disk.wallets : disk.wallets[u].balance >= 0


(* ------------------------- what a purge leaves ------------------------ *)
(* a purge of a holder: the opted-out member of DecayedLedger, at the     *)
(* removal floor, buys before the next price_update                       *)
InitHeld == Start({DecayedLedger}, NoProbe)
NextHeld == Join \/ Buy \/ PriceUpdate \/ Blocks \/ Tick
SpecHeld == InitHeld /\ [][NextHeld]_vars

(* the step in which task t leaves the lock block of                      *)
(* remove_user_completely                                                 *)
Purges(t) ==
  /\ task[t].pc = "wait"
  /\ task[t].stage = "remove_user"
  /\ task'[t] # task[t]

Conserved(d, s) ==
  d.users[s].shares_available + HeldShares(d, s) = d.users[s].total_shares

(* C29: a purge of user U leaves no record that refers to U: no holding,  *)
(* short position, limit order or hedge-fund membership has U as holder,  *)
(* owner or security, and the shares U held of other securities are       *)
(* accounted for, so that those securities still satisfy share            *)
(* conservation.                                                          *)
PurgeLeavesNothing ==
  [][\A t \in Tasks :
       Purges(t) =>
         LET U == task[t].who
         IN  /\ \A k \in DOMAIN db'.portfolios : k[1] # U /\ k[2] # U
             /\ \A id \in DOMAIN db'.short_positions :
                  /\ db'.short_positions[id].holder_id # U
                  /\ db'.short_positions[id].stock_id # U
             /\ \A id \in DOMAIN db'.limit_orders :
                  /\ db'.limit_orders[id].user_id # U
                  /\ db'.limit_orders[id].stock_id # U
             /\ \A k \in DOMAIN db'.hedge_fund_members : k[2] # U
             /\ \A s \in DOMAIN db'.users :
                  Conserved(db, s) => Conserved(db', s)
  ]_vars


(* ---------------------- the decay of an opt-out ----------------------- *)
(* the step in which price_update's lock block for one member runs *)
Reprices(t) ==
  /\ task[t].op = "price_update"
  /\ task[t].pc = "wait"
  /\ task[t].stage \in {"update_price", "remove_user"}
  /\ task'[t] # task[t]

(* C30: on a price-refresh tick the price of an opted-out security is     *)
(* replaced by a strictly smaller positive price (a fixed multiplicative  *)
(* decay of 0.1%, with no $10 floor), unless the decayed price is below   *)
(* $0.01, in which case the user is purged in that tick; an opted-out     *)
(* security is never repriced by the pricing function.                    *)
DecayAsStated ==
  [][\A t \in Tasks :
       ( /\ Reprices(t)
         /\ is_opted_out(db, task[t].who)
         /\ task[t].who \in DOMAIN db.stocks ) =>
         LET U == task[t].who
             old == db.stocks[U].current_price
         IN  IF old - (old + 999) \div 1000 < CentsToMoney(1)
             THEN /\ U \notin DOMAIN db'.users
                  /\ U \notin DOMAIN db'.stocks
                  /\ U \notin DOMAIN db'.wallets
             ELSE /\ U \in DOMAIN db'.stocks
                  /\ db'.stocks[U].current_price > 0
                  /\ db'.stocks[U].current_price < old
                  /\ db'.stocks[U].current_price = old - (old + 999) \div 1000
  ]_vars


(* ---------------------- the removal of an opt-out --------------------- *)
(* price refreshes of the opted-out member of DecayedLedger without end,  *)
(* with market events while every price is between the removal floor and  *)
(* MaxCents cents                                                         *)
MaxCents == 1
CalmMarket ==
  /\ \A u \in DOMAIN db.stocks :
       /\ db.stocks[u].current_price >= CentsToMoney(REMOVAL_FLOOR_CENTS)
       /\ db.stocks[u].current_price <= CentsToMoney(MaxCents)
  /\ market_event_roller

InitRemoval == Start({DecayedLedger}, NoProbe)
NextRemoval == PriceUpdate \/ CalmMarket \/ Blocks \/ Forget
(* the ticks of price_update keep occurring and every coroutine that can  *)
(* go on does                                                             *)
SpecRemoval ==
  /\ InitRemoval /\ [][NextRemoval]_vars
  /\ SF_vars(PriceUpdate)
  /\ WF_vars(Forget)
  /\ \A t \in Tasks : WF_vars(Read(t) \/ Transact(t))

(* C31: provided price refreshes keep occurring, every opted-out security *)
(* is eventually purged (its price eventually falls below $0.01),         *)
(* whatever market events are interleaved.                                *)
OptedOutIsPurged ==
  \A u \in Users : HasOptedOut(db, u) ~> u \notin DOMAIN db.users


(* ---- engagement events and opt-out ---- *)
InitEngage == Start({EmptyLedger}, NoProbe)
NextEngage == Engage \/ React \/ OptOut \/ Blocks \/ Tick
SpecEngage == InitEngage /\ [][NextEngage]_vars

(* what engagement has recorded for member u: the activity_metrics rows   *)
(* and wallets.last_active                                                *)
Recorded(d, u) ==
  [rows |-> [key \in {x \in DOMAIN d.activity_metrics : x[1] = u} |->
               d.activity_metrics[key]],
   last_active |-> IF u \in DOMAIN d.wallets
                   THEN d.wallets[u].last_active ELSE NoDate]

(* C32 -- once a member has opted out, no step changes the member's       *)
(* activity metrics or last-active date, whatever engagement event is     *)
(* being processed                                                        *)
OptedOutIsNotTracked ==
  [][\A u \in Users :
       HasOptedOut(db, u) /\ HasOptedOut(db', u)
         => Recorded(db', u) = Recorded(db, u)]_vars


(* ---- the dividend sweep ---- *)
(* buys, sells, the price job and the dividend job, block by block *)
(* HeldLedger after the order sweep has also filled member 2's order to  *)
(* buy 50 shares of security 2: member 2 holds two securities            *)
TwiceHeldLedger ==
  ApplyAll(HeldLedger,
           execute_buy(HeldLedger, 2, 2, 50, Money(BASE_PRICE), 0).q)
InitDividend == Start({EmptyLedger, HeldLedger, TwiceHeldLedger}, NoProbe)
NextDividend == Buy \/ Sell \/ PriceUpdate \/ DividendPayout \/ Blocks \/ Tick
SpecDividend == InitDividend /\ [][NextDividend]_vars

(* shares * current_price * 0.02 / 24 summed over the holdings of holder  *)
(* u with shares > 0                                                      *)
RECURSIVE SumDividends(_, _)
SumDividends(d, keys) ==
  IF keys = {} THEN 0
  ELSE LET k == CHOOSE x \in keys : TRUE
       IN  (d.portfolios[k].shares * d.stocks[k[2]].current_price * 2)
             \div (100 * 24)
           + SumDividends(d, keys \ {k})
Owed(d, u) ==
  SumDividends(d, {k \in DOMAIN d.portfolios :
                     k[1] = u /\ d.portfolios[k].shares > 0})

(* task t runs the lock block of pay_dividends in this step *)
PaysDividends(t) ==
  /\ task[t].op = "dividend_payout" /\ task[t].pc = "wait"
  /\ task'[t] = Idle

(* C33 -- the dividend sweep credits every holder with shares *           *)
(* current_price * (0.02/24) for each holding with shares > 0, adds the   *)
(* same to the holder's lifetime dividends, and changes no holding, no    *)
(* shares_available, no price and no short position                       *)
DividendsAsStated ==
  [][\A t \in Tasks :
       PaysDividends(t) =>
         /\ DOMAIN db'.wallets = DOMAIN db.wallets
         /\ \A u \in DOMAIN db.wallets :
              db'.wallets[u] =
                [db.wallets[u] EXCEPT
                   !.balance = @ + Owed(db, u),
                   !.lifetime_dividends = @ + Owed(db, u)]
         /\ db'.portfolios = db.portfolios
         /\ db'.users = db.users
         /\ db'.stocks = db.stocks
         /\ db'.short_positions = db.short_positions]_vars

(* a holder of two securities has been paid for both *)
PaidForTwoHoldings ==
  \E u \in DOMAIN db.wallets :
    /\ Cardinality({k \in DOMAIN db.portfolios :
                      k[1] = u /\ db.portfolios[k].shares > 0}) = 2
    /\ db.wallets[u].lifetime_dividends > 0
    /\ db.wallets[u].lifetime_dividends = Owed(db, u)


(* ---- the price range ---- *)
(* a ledger persisted by an earlier run of the bot: today member 1 has    *)
(* received VIRAL_REACTIONS reactions and member 2 FAVORITE_REPLIES       *)
(* replies                                                                *)
ActivityRow(reactions_received, replies_received) ==
  [messages |-> 0, reactions_received |-> reactions_received,
   voice_minutes |-> 0, replies_received |-> replies_received,
   mentions_received |-> 0]
ViralLedger ==
  [RegisteredLedger EXCEPT
     !.activity_metrics =
        Put(Put(NoRows, <<1, 0>>, ActivityRow(VIRAL_REACTIONS, 0)),
            <<2, 0>>, ActivityRow(0, FAVORITE_REPLIES)),
     !.wallets = [u \in DOMAIN @ |-> [@[u] EXCEPT !.last_active = 0]]]

(* price refreshes with their news events, market events, splits and      *)
(* daily resets                                                           *)
InitRange == Start({RegisteredLedger, ViralLedger}, NoProbe)
NextRange ==
  \/ PriceUpdate \/ MarketEvent \/ Split \/ DailyReset \/ Tracked \/ Tick
SpecRange == InitRange /\ [][NextRange]_vars

DailyRange(stock) ==
  stock.daily_low <= stock.current_price
    /\ stock.current_price <= stock.daily_high
AllTimeRange(stock) ==
  stock.all_time_low <= stock.current_price
    /\ stock.current_price <= stock.all_time_high

(* C34 -- in every reachable state every security has daily_low <=        *)
(* current_price <= daily_high and all_time_low <= current_price <=       *)
(* all_time_high                                                          *)
PriceWithinRange ==
  \A s \in DOMAIN db.stocks :
    DailyRange(db.stocks[s]) /\ AllTimeRange(db.stocks[s])


(* ---- market events ---- *)
(* market events among price refreshes, buys and covers, from ledgers     *)
(* with holdings and with a short position                                *)
InitEvent == Start({HeldLedger, ShortedLedger}, NoProbe)
NextEvent == MarketEvent \/ PriceUpdate \/ Buy \/ Cover \/ Blocks \/ Tick
SpecEvent == InitEvent /\ [][NextEvent]_vars

(* task t runs the lock block of _trigger_market_event in this step *)
TriggersEvent(t) ==
  /\ task[t].op = "market_event_roller" /\ task[t].pc = "wait"
  /\ task'[t] = Idle

(* security row stock after a market event of factor percent / 100 *)
Moved(stock, percent) ==
  LET price == (stock.current_price * percent) \div 100
  IN  [stock EXCEPT
         !.current_price = price,
         !.daily_high = IF price > @ THEN price ELSE @,
         !.daily_low = IF price < @ THEN price ELSE @]

(* C35 -- a market event multiplies the current price of every security   *)
(* by one common factor, of 0.7 to 0.9 for a crash and 1.1 to 1.3 for a   *)
(* boom, raises daily_high or lowers daily_low where the new price lies   *)
(* outside, appends one MarketEvent record, and changes no wallet,        *)
(* holding, share count or short position                                 *)
MarketEventAsStated ==
  [][\A t \in Tasks :
       TriggersEvent(t) =>
         /\ \E percent \in 70..90 \cup 110..130 :
              /\ DOMAIN db'.stocks = DOMAIN db.stocks
              /\ \A s \in DOMAIN db.stocks :
                   db'.stocks[s] = Moved(db.stocks[s], percent)
         /\ db.market_events < MaxEvents
              => db'.market_events = db.market_events + 1
         /\ db'.wallets = db.wallets
         /\ db'.portfolios = db.portfolios
         /\ db'.users = db.users
         /\ db'.short_positions = db.short_positions]_vars

(* a boom has moved both securities of a ledger with holdings from the    *)
(* base price, and the event is on record                                 *)
BoomRecorded ==
  /\ db.market_events = 1
  /\ db.portfolios # NoRows
  /\ Cardinality(DOMAIN db.stocks) = NumUsers
  /\ \A s \in DOMAIN db.stocks :
       /\ db.stocks[s].current_price = (Money(BASE_PRICE) * 130) \div 100
       /\ db.stocks[s].daily_high = db.stocks[s].current_price
       /\ db.stocks[s].daily_low = Money(BASE_PRICE)


(* ---- the daily reset ---- *)
(* reactions, daily resets and price refreshes, block by block *)
InitReset == Start({RegisteredLedger, HeldLedger}, CountingReactors)
NextReset == React \/ DailyReset \/ Buy \/ PriceUpdate \/ Blocks \/ Tick
SpecReset == InitReset /\ [][NextReset]_vars

(* C36 -- the daily reset sets previous_close, daily_high and daily_low   *)
(* of every security to its current price and its daily volume to 0, and  *)
(* it clears the per-day sets of unique reactors                          *)
DailyResetAsStated ==
  [][\A t \in Tasks :
       /\ (task[t] = Idle /\ task'[t].op = "daily_reset_task")
            => mem'.daily_reactors = NoRows
       /\ (task[t].op = "daily_reset_task" /\ task'[t] = Idle) =>
            /\ DOMAIN db'.stocks = DOMAIN db.stocks
            /\ \A s \in DOMAIN db.stocks :
                 db'.stocks[s] =
                   [db.stocks[s] EXCEPT
                      !.previous_close = db.stocks[s].current_price,
                      !.daily_high = db.stocks[s].current_price,
                      !.daily_low = db.stocks[s].current_price,
                      !.volume_today = 0]]_vars

(* C36, second part -- between two clearings of the sets record_activity  *)
(* counts a given reactor at most once for a given target                 *)
ReactorCountedOnce ==
  \A key \in DOMAIN probe.counted : probe.counted[key] <= 1


(* ---- news events ---- *)
(* a ledger persisted by an earlier run of the bot: today member 1 has    *)
(* received enough reactions and enough replies, member 2 neither         *)
AcclaimedLedger ==
  [RegisteredLedger EXCEPT
     !.activity_metrics =
        Put(NoRows, <<1, 0>>, ActivityRow(VIRAL_REACTIONS, FAVORITE_REPLIES)),
     !.wallets = [u \in DOMAIN @ |-> [@[u] EXCEPT !.last_active = 0]]]

(* price refreshes that read the recorded activity, over MaxHours hours *)
MaxHours == 5
Hour ==
  /\ now < MaxHours
  /\ now' = now + 1
  /\ UNCHANGED <<db, disk, lock, task, nops, probe, utc_offset, loops, mem>>
InitNews == Start({ViralLedger, AcclaimedLedger}, WatchingNews)
NextNews == PriceUpdate \/ Tracked \/ Hour
SpecNews == InitNews /\ [][NextNews]_vars

(* the price impact, in percent, the recorded metrics of member u call    *)
(* for: reactions first, replies otherwise                                *)
StatedImpact(d, u) ==
  IF d.activity_metrics[<<u, 0>>].reactions_received >= 20 THEN 10
  ELSE IF d.activity_metrics[<<u, 0>>].replies_received >= 10 THEN 5
  ELSE 0

InitRefresh == Start({RegisteredLedger, ViralLedger}, NoProbe)
NextRefresh == React \/ PriceUpdate \/ Tracked \/ Tick
SpecRefresh == InitRefresh /\ [][NextRefresh]_vars

(* the metrics recorded today for member u: every reaction counted comes  *)
(* from a reactor who is new that day                                     *)
RecordedMetrics(d, u) ==
  IF <<u, 0>> \in DOMAIN d.activity_metrics
  THEN LET row == d.activity_metrics[<<u, 0>>]
       IN  Metrics(row.messages, row.reactions_received, row.voice_minutes,
                   row.replies_received, row.mentions_received)
  ELSE Metrics(0, 0, 0, 0, 0)

(* task t persists the refreshed price of a member who has not opted out *)
Refreshes(t) ==
  /\ task[t].op = "price_update" /\ task[t].pc = "wait"
  /\ task[t].stage = "update_price" /\ task'[t] # task[t]
  /\ ~Head(task[t].todo).opted_out
  /\ task[t].who \in DOMAIN db.stocks

(* C38 -- the price a refresh persists for a security that has not opted  *)
(* out is calculate_price of its base price and the metrics recorded for  *)
(* the member, unique reactors included, with streak 0, neutral demand    *)
(* and no inactive day                                                    *)
RefreshUsesRecorded ==
  [][\A t \in Tasks :
       Refreshes(t) =>
         db'.stocks[task[t].who].current_price =
           calculate_price(db.stocks[task[t].who].base_price,
                           RecordedMetrics(db, task[t].who), 0, DemandData, 0)]_vars


(* ---- hedge funds ---- *)
(* fund creations and deposits next to buys, block by block *)
InitFunds == Start({RegisteredLedger, FundedLedger}, NoProbe)
NextFunds == FundCreate \/ FundDeposit \/ Buy \/ Blocks \/ Unlocked \/ Tick
SpecFunds == InitFunds /\ [][NextFunds]_vars

NameTaken(d, name) ==
  \E id \in DOMAIN d.hedge_funds : d.hedge_funds[id].name = name

(* no two funds of ledger d have the same name *)
FundNamesUnique(d) ==
  \A a \in DOMAIN d.hedge_funds, b \in DOMAIN d.hedge_funds :
    d.hedge_funds[a].name = d.hedge_funds[b].name => a = b

(* task t runs the lock block of fund_create in this step *)
Creates(t) ==
  /\ task[t].op = "fund_create" /\ task[t].pc = "wait"
  /\ task'[t] = Idle

(* C39 -- fund names are unique after every step; the lock block of a     *)
(* create whose name is taken, or whose founder has less than the fee,    *)
(* changes nothing; any other debits the fee from the founder and adds    *)
(* the fund, with an empty treasury, and the founder as its member at     *)
(* share_pct 100                                                          *)
FundCreateAsStated ==
  [][/\ FundNamesUnique(db')
     /\ \A t \in Tasks :
          Creates(t) =>
            LET who == task[t].who
                name == task[t].name
                fee == 1000 * 10000
            IN  IF NameTaken(db, name) \/ db.wallets[who].balance < fee
                THEN db' = db
                ELSE /\ db'.wallets =
                          [db.wallets EXCEPT ![who].balance = @ - fee]
                     /\ \E id \in DOMAIN db'.hedge_funds \ DOMAIN db.hedge_funds :
                          /\ DOMAIN db'.hedge_funds = DOMAIN db.hedge_funds \cup {id}
                          /\ db'.hedge_funds[id].name = name
                          /\ db'.hedge_funds[id].founder_id = who
                          /\ db'.hedge_funds[id].treasury = 0
                          /\ DOMAIN db'.hedge_fund_members
                               = DOMAIN db.hedge_fund_members \cup {<<id, who>>}
                          /\ db'.hedge_fund_members[<<id, who>>].share_pct = 100
                     /\ \A k \in DOMAIN db.hedge_funds :
                          db'.hedge_funds[k] = db.hedge_funds[k]
                     /\ \A k \in DOMAIN db.hedge_fund_members :
                          db'.hedge_fund_members[k] = db.hedge_fund_members[k]
                     /\ db'.users = db.users /\ db'.stocks = db.stocks
                     /\ db'.portfolios = db.portfolios]_vars


(* ---- hedge-fund accounting ---- *)
MembersOf(d, fund) == {k \in DOMAIN d.hedge_fund_members : k[1] = fund}

(* the treasury of every fund of ledger d is the sum of its members'      *)
(* contributions                                                          *)
TreasuryIsContributed(d) ==
  \A fund \in DOMAIN d.hedge_funds :
    d.hedge_funds[fund].treasury = SumContribution(d, MembersOf(d, fund))

(* every member of the fund has share_pct = contribution / sum * 100 *)
SharesAsContributed(d, fund) ==
  LET sum == SumContribution(d, MembersOf(d, fund))
  IN  sum > 0 =>
        \A k \in MembersOf(d, fund) :
          d.hedge_fund_members[k].share_pct
            = MulDiv(d.hedge_fund_members[k].contribution, 100, sum)

(* task t completes a deposit in this step *)
CompletesDeposit(t) ==
  /\ task[t].op = "deposit" /\ task[t].did
  /\ task'[t] = Idle

(* C40 -- after every step the treasury of each fund equals the sum of    *)
(* its members' contributions, and when a deposit completes every member  *)
(* of its fund has share_pct = contribution / (sum of contributions) *    *)
(* 100                                                                    *)
FundAccounting ==
  [][/\ TreasuryIsContributed(db')
     /\ \A t \in Tasks :
          CompletesDeposit(t) => SharesAsContributed(db', task[t].fund)]_vars

====
